---- MODULE Spec2Model ----
(***************************************************************************)
(* A model of the search engine of office_find_item: the single-shot and   *)
(* streaming snippet matchers (internal/extract), the extraction cache     *)
(* (internal/cache) with its truncation and its overlapping writes, the    *)
(* PDF parse limiter, the policy that enables the pure-Go PDF parser and   *)
(* the gate in front of that parser (internal/extract), the per-root       *)
(* daemon pipeline (internal/app, daemon), the result aggregator of the    *)
(* UI (internal/app, RunUI), the choice of the extractor by extension, the *)
(* chunk source of plain-text files and the search of a container's XML    *)
(* entry (internal/extract), the one-shot search searchWithContext         *)
(* (internal/search) and the command-line run RunCLI (internal/app).       *)
(*                                                                         *)
(* Text of the matchers is a sequence of code points (one-character        *)
(* strings).  The Go code indexes bytes; on valid UTF-8 input every offset *)
(* strings.Index returns lies on a code-point boundary and moveLeftRunes,  *)
(* moveRightRunes, tailRunes step whole code points, so offsets here count *)
(* code points.  The cache, whose truncation works on bytes, is modelled   *)
(* on byte sequences.                                                      *)
(***************************************************************************)
EXTENDS Integers, Sequences, FiniteSets, TLC

VARIABLES
    \* ---- single-shot matcher harness (FindSnippets) ----
    fsPc,            \* "call" before the call, "ret" after it
    fsText,          \* argument text
    fsQuery,         \* argument query
    fsContextLen,    \* argument contextLen
    fsMaxSnippets,   \* argument maxSnippets
    fsRet,           \* value returned by FindSnippets of snippets.go
    fsRetB           \* value returned by FindSnippets of the strings.Index variant

fsVars == <<fsPc, fsText, fsQuery, fsContextLen, fsMaxSnippets, fsRet, fsRetB>>

VARIABLES
    \* ---- streaming matcher (streamFindFirst / streamFindSnippets) ----
    smFn,            \* "first" or "snippets": the function being run
    smText,          \* the whole text the fragment source yields (for the claims)
    smChunks,        \* fragments the source has not yet yielded
    smQuery,         \* argument query
    smContextLen,    \* argument contextLen
    smMaxSnippets,   \* argument maxSnippets
    smCtxErr,        \* TRUE once ctx is cancelled (ctx.Err() != nil)
    smPc,            \* "entry", "outer" (top of the chunk loop), "next" (past
                     \* its ctx.Err() test, at next(ctx)), "more" (top of the
                     \* right-context loop), "moreNext" (past the test of
                     \* that loop, at next(ctx)), "done"
    smPrevTail,      \* prevTail
    smFullText,      \* searchText / fullText of the current iteration
    smSearchFrom,    \* searchFrom
    smMatchStart,    \* matchStart of the match waiting for right context
    smSnips,         \* snips
    smRet,           \* the returned values, once smPc = "done"
    smLatePull       \* number of calls of next() made with ctx already cancelled

smVars == <<smFn, smText, smChunks, smQuery, smContextLen, smMaxSnippets, smCtxErr,
            smPc, smPrevTail, smFullText, smSearchFrom, smMatchStart, smSnips,
            smRet, smLatePull>>

VARIABLES
    \* ---- extraction cache (one entry) ----
    caMaxTextBytes,  \* Cache.MaxTextBytes
    caFile,          \* what os.Stat(absPath) reports: exists, regular, size, mtime
    caEntry,         \* the file at cachePath(absPath)
    caEpoch,         \* number of changes of the file's size or mtime so far
    caCall,          \* the call of GetOrExtract in progress: where it is, the
                     \* os.FileInfo it holds, the text it is about to store
    caMiss,          \* the latest miss: the text it returned, whether its cache
                     \* write succeeded, the file as os.Stat saw it and as it
                     \* was at the return
    caLast           \* the outcome of the last GetOrExtract call

caVars == <<caMaxTextBytes, caFile, caEntry, caEpoch, caCall, caMiss, caLast>>

\* The search daemon (internal/app RunDaemon).
VARIABLES
    dmPc,            \* "loop" while RunDaemon reads stdin, "start" in startSearch
                     \* after searchMu.Unlock(), "exited" after it returned
    dmStdin,         \* stdin: the number of lines it carries and the setQuery
                     \* commands its client sends
    dmWorkers,       \* opts.Workers: the -workers flag, 0 when it is not given
    dmRuntime,       \* the host: runtime.NumCPU() and runtime.GOARCH
    dmLines,         \* lines of stdin read so far
    dmCmd,           \* the line read last: its kind and, for setQuery, the command
    dmTree,          \* what WalkDir reports under the root, in its order
    dmRuns,          \* the runs started by the setQuery commands, by line number
    dmCancel,        \* the run whose context the variable cancel holds, 0 for none
    dmLog            \* the last event written to stdout (or file passed over)

dmVars == <<dmPc, dmStdin, dmWorkers, dmRuntime, dmLines, dmCmd, dmTree, dmRuns, dmCancel, dmLog>>

\* The window's result aggregator (internal/app RunUI).
VARIABLES
    uiGen,           \* gen, the generation of the current query
    uiClosed,        \* uiClosed
    uiEmitted,       \* daemon events emitted so far
    uiResultCh,      \* the events in resultCh
    uiBuffer,        \* buffer of the aggregator goroutine
    uiAggPc,         \* "select" while the aggregator goroutine runs, then "returned"
    uiSync,          \* the batches handed to mw.Synchronize and not yet run
    uiRows,          \* model.RowCount()
    uiStatus,        \* the text of the status bar
    uiLast           \* the last callback run: its curGen, the QueryIDs of the
                     \* events it applied and of those it passed over, the
                     \* result events of curGen in its batch, the rows of the
                     \* model before it and the rows it appended

uiVars == <<uiGen, uiClosed, uiEmitted, uiResultCh, uiBuffer, uiAggPc, uiSync, uiRows,
            uiStatus, uiLast>>

\* A call of truncateUTF8ToBytes (internal/cache).
VARIABLES
    trPc, \* "call" before the call, "ret" after it
    trRunes, \* the code points of s, each as its UTF-8 bytes
    trS, \* argument s
    trMaxBytes, \* argument maxBytes
    trRet \* the returned string

trVars == <<trPc, trRunes, trS, trMaxBytes, trRet>>

\* Overlapping writes of one cache entry (internal/cache write, tryRead).
VARIABLES
    cwPc, \* each writer's position in write: "create", "hdr", "payload", "close", "rename", "cleanup", "done"
    cwFd, \* the descriptor f of each writer: the inode it is open on (0 for none) and its offset
    cwFiles, \* the content of each inode
    cwTmp, \* the inode the name path+".tmp" refers to, 0 for none
    cwFinal, \* the inode the name of the entry refers to, 0 for none
    cwRd \* the reader (tryRead): its position, its descriptor, what it read

cwVars == <<cwPc, cwFd, cwFiles, cwTmp, cwFinal, cwRd>>

\* The PDF parse limiter (internal/extract).
VARIABLES
    pdEnv, \* the environment variable OFIND_PDF_CONCURRENT_LIMIT
    pdLimit, \* pdfConcurrentLimit
    pdSem, \* the number of tokens in the channel pdfSemaphore
    pdActive, \* activePDFTasks
    pdPc, \* each worker's position: "idle", "acquire", "grace", "sem", "count", "open", "parse", "uncount", "release"
    pdRes, \* what each worker's last PDF call came to: "none", "mem", "ctx", "err", "ok"
    pdMem \* isMemoryHigh(): runtime.MemStats.Alloc is above pdfMemoryLimitValue()

pdVars == <<pdEnv, pdLimit, pdSem, pdActive, pdPc, pdRes, pdMem>>

\* The pure-Go PDF fallback policy (internal/extract).
VARIABLES
    ppGoos, \* runtime.GOOS
    ppEnv, \* the environment variable OFIND_PDF_PUREGO
    ppIFilter, \* whether the system has a PDF IFilter now
    ppOnce, \* pdfHasIFilterOnce is done
    ppHas, \* pdfHasIFilter
    ppProbes, \* the calls of HasPDFIFilter so far
    ppCalls, \* the calls of pdfPureGoFallbackEnabled so far
    ppLast \* the last call: the variable it read and what it returned

ppVars == <<ppGoos, ppEnv, ppIFilter, ppOnce, ppHas, ppProbes, ppCalls, ppLast>>

\* One call of a pure-Go PDF function on one file (internal/extract).
VARIABLES
    pgFn, \* the function: "first" (pdfFindFirst), "snippets" (pdfFindSnippetsStream), "extract" (pdfExtractText)
    pgFile, \* the file: whether it can be opened, its size, its pages, the page that fails to parse (0: none)
    pgCfg, \* the ceilings, the page workers, the page after which the caller has enough
    pgCtx, \* ctx is cancelled
    pgPc, \* the position of the caller
    pgPermit, \* the caller holds a permit of the limiter
    pgPage, \* the page the caller is at (nextPage)
    pgW, \* the page workers: position and page
    pgJobs, \* the next page the feeder sends on jobs
    pgResults, \* the pages whose result was sent
    pgSeen, \* the pages whose result was received
    pgInner, \* cancel of pdfExtractTextParallel was called
    pgRet, \* what the call returned: "none", "ok", "err"
    pgText \* the pages whose text the caller has taken, in the order taken

pgVars == <<pgFn, pgFile, pgCfg, pgCtx, pgPc, pgPermit, pgPage, pgW, pgJobs, pgResults, pgSeen, pgInner, pgRet, pgText>>

\* The choice of the extractor by the three entry points (internal/extract).
VARIABLES
    xsPath, \* the path of the file
    xsSel \* the extractor each entry point has called on it: "none" before the call

xsVars == <<xsPath, xsSel>>

\* The chunk source of a UTF-8 text file (internal/extract, textFileFindSnippets).
VARIABLES
    tcFile, \* the bytes of the file
    tcPos, \* the offset of the file
    tcLeftOver, \* leftOver
    tcFirst, \* firstChunk
    tcLast, \* the fragment the last call of next returned
    tcOut, \* the fragments returned so far, one after the other
    tcEof, \* next has returned io.EOF
    tcFirstRead \* the bytes the first f.Read delivered

tcVars == <<tcFile, tcPos, tcLeftOver, tcFirst, tcLast, tcOut, tcEof, tcFirstRead>>

\* One call of xmlStreamFindSnippets on an entry of a container file (internal/extract).
VARIABLES
    oxNodes, \* the text nodes of the entry, in the order of the document
    oxQuery, \* argument query
    oxContextLen, \* argument contextLen
    oxMaxSnippets, \* argument maxSnippets
    oxPc, \* "call", "loop", "ret"
    oxK, \* the next text node the decoder yields
    oxSnips \* snips

oxVars == <<oxNodes, oxQuery, oxContextLen, oxMaxSnippets, oxPc, oxK, oxSnips>>

\* One call of searchWithContext (internal/search).
VARIABLES
    swWorkers, \* cfg.WorkerCount()
    swTree, \* what the walks of the roots meet, in order
    swCancelled, \* ctx is cancelled
    swK, \* the entry the walk is at
    swWalkPc, \* the walking goroutine: "walk", "send", "done" (walkDone closed)
    swJobs, \* the paths in the channel jobs
    swJobsClosed, \* jobs is closed
    swW, \* the position of each worker: "recv", "ctx", "match", "send", "exit"
    swRes, \* the results in the channel resCh
    swResClosed, \* resCh is closed
    swCloserPc, \* the closing goroutine: "walkDone", "wait", "done"
    swMainPc, \* searchWithContext: "range", "returned"
    swGot \* the calls of onResult

swVars == <<swWorkers, swTree, swCancelled, swK, swWalkPc, swJobs, swJobsClosed, swW, swRes, swResClosed, swCloserPc, swMainPc, swGot>>

\* One run of RunCLI (internal/app).
VARIABLES
    rcNeed, \* doneNeed, the daemons that started
    rcPc, \* RunCLI: "start", "collect", "printed", "failed"
    rcEmitted, \* the events each daemon has written; MaxEmit + 1 after its done event
    rcOutCh, \* the events in the channel outCh
    rcGot, \* doneGot
    rcRows, \* the results recorded
    rcLostDone \* the done events the callback dropped

rcVars == <<rcNeed, rcPc, rcEmitted, rcOutCh, rcGot, rcRows, rcLostDone>>

vars == <<fsVars, smVars, caVars, dmVars, uiVars, trVars, cwVars, pdVars, ppVars, pgVars, xsVars, tcVars, oxVars, swVars, rcVars>>

\* What the actions of one component leave alone: the other components.
fsRest == <<smVars, caVars, dmVars, uiVars, trVars, cwVars, pdVars, ppVars, pgVars, xsVars, tcVars, oxVars, swVars, rcVars>>
smRest == <<fsVars, caVars, dmVars, uiVars, trVars, cwVars, pdVars, ppVars, pgVars, xsVars, tcVars, oxVars, swVars, rcVars>>
caRest == <<fsVars, smVars, dmVars, uiVars, trVars, cwVars, pdVars, ppVars, pgVars, xsVars, tcVars, oxVars, swVars, rcVars>>
dmRest == <<fsVars, smVars, caVars, uiVars, trVars, cwVars, pdVars, ppVars, pgVars, xsVars, tcVars, oxVars, swVars, rcVars>>
uiRest == <<fsVars, smVars, caVars, dmVars, trVars, cwVars, pdVars, ppVars, pgVars, xsVars, tcVars, oxVars, swVars, rcVars>>
trRest == <<fsVars, smVars, caVars, dmVars, uiVars, cwVars, pdVars, ppVars, pgVars, xsVars, tcVars, oxVars, swVars, rcVars>>
cwRest == <<fsVars, smVars, caVars, dmVars, uiVars, trVars, pdVars, ppVars, pgVars, xsVars, tcVars, oxVars, swVars, rcVars>>
pdRest == <<fsVars, smVars, caVars, dmVars, uiVars, trVars, cwVars, ppVars, pgVars, xsVars, tcVars, oxVars, swVars, rcVars>>
ppRest == <<fsVars, smVars, caVars, dmVars, uiVars, trVars, cwVars, pdVars, pgVars, xsVars, tcVars, oxVars, swVars, rcVars>>
pgRest == <<fsVars, smVars, caVars, dmVars, uiVars, trVars, cwVars, pdVars, ppVars, xsVars, tcVars, oxVars, swVars, rcVars>>
xsRest == <<fsVars, smVars, caVars, dmVars, uiVars, trVars, cwVars, pdVars, ppVars, pgVars, tcVars, oxVars, swVars, rcVars>>
tcRest == <<fsVars, smVars, caVars, dmVars, uiVars, trVars, cwVars, pdVars, ppVars, pgVars, xsVars, oxVars, swVars, rcVars>>
oxRest == <<fsVars, smVars, caVars, dmVars, uiVars, trVars, cwVars, pdVars, ppVars, pgVars, xsVars, tcVars, swVars, rcVars>>
swRest == <<fsVars, smVars, caVars, dmVars, uiVars, trVars, cwVars, pdVars, ppVars, pgVars, xsVars, tcVars, oxVars, rcVars>>
rcRest == <<fsVars, smVars, caVars, dmVars, uiVars, trVars, cwVars, pdVars, ppVars, pgVars, xsVars, tcVars, oxVars, swVars>>

----
\* Bounds of the model.
MaxTextLen == 4
MaxQueryLen == 2
MaxContext == 2
MaxSnips == 2

\* The code points texts and queries are built from.  " " is white space for
\* strings.TrimSpace; the others are ordinary letters.
Alphabet == {"a", "b", " "}

\* The brackets FindSnippets puts around the match: U+3010 and U+3011.
OpenMark == "["
CloseMark == "]"

Min(a, b) == IF a < b THEN a ELSE b
Max(a, b) == IF a > b THEN a ELSE b

\* All sequences over S of length lo..hi.
SeqsOf(S, lo, hi) == UNION {[1..n -> S] : n \in lo..hi}

----
\* ======================= internal/extract: FindSnippets ==================

\* indexRunesFrom(hay, needle, from): first index >= from (0-based) at which
\* needle occurs in hay, -1 when there is none.
RECURSIVE indexRunesFrom(_, _, _)
indexRunesFrom(hay, needle, from) ==
    IF Len(needle) = 0 THEN from
    ELSE LET f == IF from < 0 THEN 0 ELSE from IN
         IF Len(needle) > Len(hay) - f THEN -1
         ELSE IF SubSeq(hay, f + 1, f + Len(needle)) = needle THEN f
         ELSE indexRunesFrom(hay, needle, f + 1)

\* A mutant of the loop: the search resumes one code point after the start of
\* the previous match, so overlapping occurrences are reported.
RECURSIVE FindSnippetsLoop_Overlap(_, _, _, _, _, _)
FindSnippetsLoop_Overlap(tr, qr, contextLen, maxSnippets, i, snips) ==
    IF ~(i + Len(qr) <= Len(tr)) THEN snips
    ELSE LET idx == indexRunesFrom(tr, qr, i) IN
         IF idx < 0 THEN snips
         ELSE LET start == Max(idx - contextLen, 0)
                  end == Min(idx + Len(qr) + contextLen, Len(tr))
                  snip == SubSeq(tr, start + 1, idx) \o <<OpenMark>>
                          \o SubSeq(tr, idx + 1, idx + Len(qr)) \o <<CloseMark>>
                          \o SubSeq(tr, idx + Len(qr) + 1, end)
                  out == Append(snips, snip)
              IN IF Len(out) >= maxSnippets THEN out
                 ELSE FindSnippetsLoop_Overlap(tr, qr, contextLen, maxSnippets, idx + 1, out)

\* A mutant of the loop: the right context is measured from the start of the
\* match instead of its end.
RECURSIVE FindSnippetsLoop_BadContext(_, _, _, _, _, _)
FindSnippetsLoop_BadContext(tr, qr, contextLen, maxSnippets, i, snips) ==
    IF ~(i + Len(qr) <= Len(tr)) THEN snips
    ELSE LET idx == indexRunesFrom(tr, qr, i) IN
         IF idx < 0 THEN snips
         ELSE LET start == Max(idx - contextLen, 0)
                  end == Min(idx + contextLen, Len(tr))
                  snip == SubSeq(tr, start + 1, idx) \o <<OpenMark>>
                          \o SubSeq(tr, idx + 1, idx + Len(qr)) \o <<CloseMark>>
                          \o SubSeq(tr, idx + Len(qr) + 1, end)
                  out == Append(snips, snip)
              IN IF Len(out) >= maxSnippets THEN out
                 ELSE FindSnippetsLoop_BadContext(tr, qr, contextLen, maxSnippets, idx + Len(qr), out)

\* The loop of FindSnippets (snippets.go): i is the search cursor, snips the
\* snippets collected so far.
RECURSIVE FindSnippetsLoop(_, _, _, _, _, _)
FindSnippetsLoop(tr, qr, contextLen, maxSnippets, i, snips) ==
    IF ~(i + Len(qr) <= Len(tr)) THEN snips
    ELSE LET idx == indexRunesFrom(tr, qr, i) IN
         IF idx < 0 THEN snips
         ELSE LET start == Max(idx - contextLen, 0)
                  end == Min(idx + Len(qr) + contextLen, Len(tr))
                  snip == SubSeq(tr, start + 1, idx) \o <<OpenMark>>
                          \o SubSeq(tr, idx + 1, idx + Len(qr)) \o <<CloseMark>>
                          \o SubSeq(tr, idx + Len(qr) + 1, end)
                  out == Append(snips, snip)
              IN IF Len(out) >= maxSnippets THEN out
                 ELSE FindSnippetsLoop(tr, qr, contextLen, maxSnippets, idx + Len(qr), out)

\* FindSnippets(text, query, contextLen, maxSnippets) of snippets.go.
FindSnippets(text, query, contextLen, maxSnippets) ==
    LET ms == IF maxSnippets <= 0 THEN 1 ELSE maxSnippets
        cl == IF contextLen < 0 THEN 0 ELSE contextLen
    IN IF Len(query) = 0 \/ Len(text) = 0 THEN <<>>
       ELSE FindSnippetsLoop(text, query, cl, ms, 0, <<>>)

\* clampByteIndex(i, length)
clampByteIndex(i, length) == IF i < 0 THEN 0 ELSE IF i > length THEN length ELSE i

\* moveLeftRunes(s, fromByte, n): the offset n code points left of fromByte,
\* stopping at the start of s.
RECURSIVE moveLeftLoop(_, _, _)
moveLeftLoop(i, k, n) == IF k < n /\ i > 0 THEN moveLeftLoop(i - 1, k + 1, n) ELSE i

moveLeftRunes(s, fromByte, n) ==
    IF n <= 0 THEN clampByteIndex(fromByte, Len(s))
    ELSE moveLeftLoop(clampByteIndex(fromByte, Len(s)), 0, n)

\* moveRightRunes(s, fromByte, n): the offset n code points right of fromByte,
\* stopping at the end of s.
RECURSIVE moveRightLoop(_, _, _, _)
moveRightLoop(i, k, n, length) ==
    IF k < n /\ i < length THEN moveRightLoop(i + 1, k + 1, n, length) ELSE i

moveRightRunes(s, fromByte, n) ==
    IF n <= 0 THEN clampByteIndex(fromByte, Len(s))
    ELSE moveRightLoop(clampByteIndex(fromByte, Len(s)), 0, n, Len(s))

\* strings.Index(s[from:], q): offset relative to from, -1 when absent.
IndexAfter(s, from, q) ==
    LET r == indexRunesFrom(s, q, from) IN IF r < 0 THEN -1 ELSE r - from

\* The snippet both matchers build around a match [matchStart, matchEnd).
BuildSnippet(text, matchStart, matchEnd, contextLen) ==
    LET start == moveLeftRunes(text, matchStart, contextLen)
        end == moveRightRunes(text, matchEnd, contextLen)
    IN SubSeq(text, start + 1, matchStart) \o <<OpenMark>>
       \o SubSeq(text, matchStart + 1, matchEnd) \o <<CloseMark>>
       \o SubSeq(text, matchEnd + 1, end)

\* The loop of the strings.Index variant of FindSnippets.
RECURSIVE FindSnippetsIndexLoop(_, _, _, _, _, _)
FindSnippetsIndexLoop(text, query, contextLen, maxSnippets, searchFrom, snips) ==
    IF ~(Len(snips) < maxSnippets /\ searchFrom <= Len(text)) THEN snips
    ELSE LET idx == IndexAfter(text, searchFrom, query) IN
         IF idx < 0 THEN snips
         ELSE LET matchStart == searchFrom + idx
                  matchEnd == matchStart + Len(query)
                  out == Append(snips, BuildSnippet(text, matchStart, matchEnd, contextLen))
                  nextFrom == IF matchEnd <= searchFrom THEN searchFrom + 1 ELSE matchEnd
              IN FindSnippetsIndexLoop(text, query, contextLen, maxSnippets, nextFrom, out)

\* FindSnippets of the variant built on strings.Index and byte offsets.
FindSnippetsIndex(text, query, contextLen, maxSnippets) ==
    LET ms == IF maxSnippets <= 0 THEN 1 ELSE maxSnippets
        cl == IF contextLen < 0 THEN 0 ELSE contextLen
    IN IF Len(query) = 0 \/ Len(text) = 0 THEN <<>>
       ELSE FindSnippetsIndexLoop(text, query, cl, ms, 0, <<>>)

----
\* ======================= harness of the single-shot matcher ==============

FsTexts == SeqsOf(Alphabet, 0, MaxTextLen)
FsQueries == SeqsOf(Alphabet, 0, MaxQueryLen)

FsInit ==
    /\ fsPc = "call"
    /\ fsText \in FsTexts
    /\ fsQuery \in FsQueries
    /\ fsContextLen \in -1..MaxContext
    /\ fsMaxSnippets \in -1..MaxSnips
    /\ fsRet = <<>>
    /\ fsRetB = <<>>

\* One call of FindSnippets on the drawn arguments, in both variants.
CallFindSnippets ==
    /\ fsPc = "call"
    /\ fsPc' = "ret"
    /\ fsRet' = FindSnippets(fsText, fsQuery, fsContextLen, fsMaxSnippets)
    /\ fsRetB' = FindSnippetsIndex(fsText, fsQuery, fsContextLen, fsMaxSnippets)
    /\ UNCHANGED <<fsText, fsQuery, fsContextLen, fsMaxSnippets>>
    /\ UNCHANGED fsRest

FsNext == CallFindSnippets

\* The streaming matcher's variables, at rest.
SmIdle ==
    /\ smFn = "none" /\ smText = <<>> /\ smChunks = <<>> /\ smQuery = <<>>
    /\ smContextLen = 0 /\ smMaxSnippets = 0 /\ smCtxErr = FALSE /\ smPc = "idle"
    /\ smPrevTail = <<>> /\ smFullText = <<>> /\ smSearchFrom = 0 /\ smMatchStart = 0
    /\ smSnips = <<>> /\ smRet = [found |-> FALSE, snippet |-> <<>>, snips |-> <<>>, err |-> "none"]
    /\ smLatePull = 0


----
\* ======================= claims on FindSnippets ==========================

\* Offsets (0-based) at which q occurs in t.
Occurrences(t, q) == {i \in 0..(Len(t) - Len(q)) : SubSeq(t, i + 1, i + Len(q)) = q}

SetMin(S) == CHOOSE x \in S : \A y \in S : x <= y
SetMax(S) == CHOOSE x \in S : \A y \in S : x >= y

\* The snippet the specification prescribes for an occurrence at offset i.
ShapeAt(t, q, c, i) ==
    SubSeq(t, Max(0, i - c) + 1, i) \o <<OpenMark>> \o q \o <<CloseMark>>
    \o SubSeq(t, i + Len(q) + 1, Min(Len(t), i + Len(q) + c))

\* C6: with maxSnippets = 1 and the term occurring first at offset i,
\* FindSnippets returns exactly the one snippet
\* T[max(0,i-C):i] + open + Q + close + T[i+|Q| : min(|T|, i+|Q|+C)],
\* a negative C counting as 0.
C6_SnippetShape ==
    (fsPc = "ret" /\ fsMaxSnippets = 1 /\ Len(fsQuery) > 0
        /\ Occurrences(fsText, fsQuery) # {})
    => LET i == SetMin(Occurrences(fsText, fsQuery))
           c == Max(fsContextLen, 0)
       IN /\ fsRet = <<ShapeAt(fsText, fsQuery, c, i)>>
          /\ fsRetB = <<ShapeAt(fsText, fsQuery, c, i)>>

\* C6 witness: a match in mid-text whose left context is clamped at the start
\* of the text and whose right context is clamped at its end.
C6_Witness ==
    /\ fsPc = "ret" /\ fsMaxSnippets = 1 /\ fsContextLen = 2
    /\ fsText = <<"a", "b", " ", "a">> /\ fsQuery = <<"b">>
    /\ fsRet = <<<<"a", OpenMark, "b", CloseMark, " ", "a">>>>

\* The greedy left-to-right non-overlapping occurrences of q in t from offset
\* from on, as a sequence of offsets.
RECURSIVE GreedyOccurrences(_, _, _)
GreedyOccurrences(t, q, from) ==
    LET later == {i \in Occurrences(t, q) : i >= from} IN
    IF later = {} THEN <<>>
    ELSE <<SetMin(later)>> \o GreedyOccurrences(t, q, SetMin(later) + Len(q))

\* C7: FindSnippets reports the greedy non-overlapping occurrences in order,
\* min(maxSnippets, their number) of them, maxSnippets <= 0 counting as 1.
C7_NonOverlapping ==
    (fsPc = "ret" /\ Len(fsQuery) > 0 /\ Len(fsText) > 0)
    => LET occ == GreedyOccurrences(fsText, fsQuery, 0)
           n == Min(IF fsMaxSnippets <= 0 THEN 1 ELSE fsMaxSnippets, Len(occ))
           c == Max(fsContextLen, 0)
           want == [k \in 1..n |-> ShapeAt(fsText, fsQuery, c, occ[k])]
       IN fsRet = want /\ fsRetB = want

\* C7 witness: "aaaa" / "aa" with maxSnippets 2 gives two snippets although
\* the term occurs at three offsets.
C7_Witness ==
    /\ fsPc = "ret" /\ fsMaxSnippets = 2 /\ fsContextLen = 0
    /\ fsText = <<"a", "a", "a", "a">> /\ fsQuery = <<"a", "a">>
    /\ Cardinality(Occurrences(fsText, fsQuery)) = 3
    /\ fsRet = <<<<OpenMark, "a", "a", CloseMark>>, <<OpenMark, "a", "a", CloseMark>>>>

----
\* ======================= the streaming matcher ===========================

\* keepRunes = contextLen + RuneCount(query) + TailMargin
TailMargin == 8

\* A code point outside ASCII is written by its name, "U+3000".
\* The white space of unicode.IsSpace, which strings.TrimSpace removes.
WhiteSpace ==
    {"\t", "\n", "U+000B", "\f", "\r", " ", "U+0085", "U+00A0", "U+1680",
     "U+2000", "U+2001", "U+2002", "U+2003", "U+2004", "U+2005", "U+2006",
     "U+2007", "U+2008", "U+2009", "U+200A", "U+2028", "U+2029", "U+202F",
     "U+205F", "U+3000"}
IsSpace(ch) == ch \in WhiteSpace

\* strings.TrimSpace on a sequence of code points.
RECURSIVE TrimLeft(_)
TrimLeft(s) == IF s # <<>> /\ IsSpace(Head(s)) THEN TrimLeft(Tail(s)) ELSE s

RECURSIVE TrimRight(_)
TrimRight(s) ==
    IF s # <<>> /\ IsSpace(s[Len(s)]) THEN TrimRight(SubSeq(s, 1, Len(s) - 1)) ELSE s

stringsTrimSpace(s) == TrimRight(TrimLeft(s))

\* A mutant of tailRunes: everything is kept.
tailRunes_All(s, n) == s

\* tailRunes(s, n): the last n code points of s.
tailRunes(s, n) ==
    IF n <= 0 \/ s = <<>> THEN <<>>
    ELSE IF Len(s) <= n THEN s
    ELSE SubSeq(s, Len(s) - n + 1, Len(s))

\* hasEnoughRightContext(s, fromByte, contextLen)
hasEnoughRightContext(s, fromByte, contextLen) ==
    IF contextLen <= 0 THEN TRUE
    ELSE Len(s) - clampByteIndex(fromByte, Len(s)) >= contextLen

\* A mutant of keepRunes: only the left context is kept.
keepRunes_ContextOnly(query, contextLen) == contextLen

\* keepRunes of both streaming functions (contextLen already normalised).
keepRunes(query, contextLen) == contextLen + Len(query) + TailMargin

NormContext(c) == IF c < 0 THEN 0 ELSE c
NormMaxSnippets(n) == IF n <= 0 THEN 1 ELSE n

\* Values a streaming function returns.  streamFindFirst returns
\* (found, snippet, err); streamFindSnippets returns (snips, err).
RetFirst(found, snippet, err) ==
    [found |-> found, snippet |-> snippet, snips |-> <<>>, err |-> err]
RetSnips(snips, err) ==
    [found |-> FALSE, snippet |-> <<>>, snips |-> snips, err |-> err]
NoRet == [found |-> FALSE, snippet |-> <<>>, snips |-> <<>>, err |-> "none"]

\* The inner loop of streamFindSnippets, run from (searchText, searchFrom,
\* snips) until it needs a fragment for right context ("more"), runs out of
\* occurrences in searchText ("outer") or has maxSnippets snippets ("full").
RECURSIVE SnippetScan(_, _, _, _, _, _)
SnippetScan(searchText, searchFrom, snips, query, contextLen, maxSnippets) ==
    IF ~(Len(snips) < maxSnippets)
    THEN [kind |-> "full", snips |-> snips, searchFrom |-> searchFrom, matchStart |-> 0]
    ELSE LET idx == IndexAfter(searchText, searchFrom, query) IN
         IF idx < 0
         THEN [kind |-> "outer", snips |-> snips, searchFrom |-> searchFrom, matchStart |-> 0]
         ELSE LET matchStart == searchFrom + idx
                  matchEnd == matchStart + Len(query)
              IN IF ~hasEnoughRightContext(searchText, matchEnd, contextLen)
                 THEN [kind |-> "more", snips |-> snips, searchFrom |-> searchFrom,
                       matchStart |-> matchStart]
                 ELSE SnippetScan(searchText,
                                  IF matchEnd <= searchFrom THEN searchFrom + 1 ELSE matchEnd,
                                  Append(snips, BuildSnippet(searchText, matchStart, matchEnd, contextLen)),
                                  query, contextLen, maxSnippets)

\* A mutant of the context test of the right-context loops: never cancelled.
ctxErrBeforeMore_Never(cancelled) == FALSE

\* ctx.Err() != nil as tested at the top of the chunk loop.
ctxErrBeforePull(cancelled) == cancelled

\* ctx.Err() != nil as tested in the right-context loop.
ctxErrBeforeMore(cancelled) == cancelled

\* Entry of streamFindFirst / streamFindSnippets: the blank-query test.
StreamEnter ==
    /\ smPc = "entry"
    /\ IF stringsTrimSpace(smQuery) = <<>>
       THEN /\ smPc' = "done"
            /\ smRet' = IF smFn = "first" THEN RetFirst(FALSE, <<>>, "query empty")
                        ELSE RetSnips(<<>>, "query empty")
       ELSE /\ smPc' = "outer"
            /\ smRet' = smRet
    /\ UNCHANGED <<smFn, smText, smChunks, smQuery, smContextLen, smMaxSnippets,
                   smCtxErr, smPrevTail, smFullText, smSearchFrom, smMatchStart,
                   smSnips, smLatePull>>
    /\ UNCHANGED smRest

\* streamFindFirst at the top of its chunk loop: the test of ctx.Err().
FirstCtxErr ==
    /\ smFn = "first" /\ smPc = "outer"
    /\ IF ctxErrBeforePull(smCtxErr)
       THEN /\ smPc' = "done"
            /\ smRet' = RetFirst(FALSE, <<>>, "canceled")
       ELSE /\ smPc' = "next"
            /\ UNCHANGED smRet
    /\ UNCHANGED <<smFn, smText, smChunks, smQuery, smContextLen, smMaxSnippets, smCtxErr,
                   smPrevTail, smFullText, smSearchFrom, smMatchStart, smSnips,
                   smLatePull>>
    /\ UNCHANGED smRest

\* streamFindFirst, the rest of the turn of the chunk loop: next(ctx) and
\* the search of prevTail + chunk.
FirstPull ==
    /\ smFn = "first" /\ smPc = "next"
    /\ LET c == NormContext(smContextLen) IN
       IF smChunks = <<>>
       THEN /\ smPc' = "done"
            /\ smRet' = RetFirst(FALSE, <<>>, "nil")
            /\ smLatePull' = smLatePull + (IF smCtxErr THEN 1 ELSE 0)
            /\ UNCHANGED <<smChunks, smPrevTail, smFullText, smMatchStart>>
       ELSE LET searchText == smPrevTail \o Head(smChunks)
                idx == IndexAfter(searchText, 0, smQuery)
            IN /\ smChunks' = Tail(smChunks)
               /\ smLatePull' = smLatePull + (IF smCtxErr THEN 1 ELSE 0)
               /\ IF idx < 0
                  THEN /\ smPrevTail' = tailRunes(searchText, keepRunes(smQuery, c))
                       /\ smPc' = "outer"
                       /\ UNCHANGED <<smFullText, smMatchStart, smRet>>
                  ELSE IF hasEnoughRightContext(searchText, idx + Len(smQuery), c)
                  THEN /\ smPc' = "done"
                       /\ smRet' = RetFirst(TRUE,
                                       BuildSnippet(searchText, idx, idx + Len(smQuery), c), "nil")
                       /\ smFullText' = searchText
                       /\ smMatchStart' = idx
                       /\ UNCHANGED smPrevTail
                  ELSE /\ smPc' = "more"
                       /\ smFullText' = searchText
                       /\ smMatchStart' = idx
                       /\ UNCHANGED <<smPrevTail, smRet>>
    /\ UNCHANGED <<smFn, smText, smQuery, smContextLen, smMaxSnippets, smCtxErr,
                   smSearchFrom, smSnips>>
    /\ UNCHANGED smRest

\* streamFindFirst at the top of its right-context loop (more context is
\* needed): the test of ctx.Err().
FirstMoreCtxErr ==
    /\ smFn = "first" /\ smPc = "more"
    /\ IF ctxErrBeforeMore(smCtxErr)
       THEN /\ smPc' = "done"
            /\ smRet' = RetFirst(FALSE, <<>>, "canceled")
       ELSE /\ smPc' = "moreNext"
            /\ UNCHANGED smRet
    /\ UNCHANGED <<smFn, smText, smChunks, smQuery, smContextLen, smMaxSnippets, smCtxErr,
                   smPrevTail, smFullText, smSearchFrom, smMatchStart, smSnips,
                   smLatePull>>
    /\ UNCHANGED smRest

\* streamFindFirst, the rest of the turn of the right-context loop:
\* next(ctx); the snippet is built when the loop ends.
FirstMore ==
    /\ smFn = "first" /\ smPc = "moreNext"
    /\ LET c == NormContext(smContextLen)
           matchEnd == smMatchStart + Len(smQuery)
       IN
       IF smChunks = <<>>
       THEN /\ smPc' = "done"
            /\ smRet' = RetFirst(TRUE, BuildSnippet(smFullText, smMatchStart, matchEnd, c), "nil")
            /\ smLatePull' = smLatePull + (IF smCtxErr THEN 1 ELSE 0)
            /\ UNCHANGED <<smChunks, smFullText>>
       ELSE LET fullText == smFullText \o Head(smChunks) IN
            /\ smChunks' = Tail(smChunks)
            /\ smFullText' = fullText
            /\ smLatePull' = smLatePull + (IF smCtxErr THEN 1 ELSE 0)
            /\ IF hasEnoughRightContext(fullText, matchEnd, c)
               THEN /\ smPc' = "done"
                    /\ smRet' = RetFirst(TRUE, BuildSnippet(fullText, smMatchStart, matchEnd, c), "nil")
               ELSE /\ smPc' = "more"
                    /\ smRet' = smRet
    /\ UNCHANGED <<smFn, smText, smQuery, smContextLen, smMaxSnippets, smCtxErr,
                   smPrevTail, smSearchFrom, smMatchStart, smSnips>>
    /\ UNCHANGED smRest

\* The state streamFindSnippets is left in after SnippetScan stopped with
\* outcome r on searchText.
AfterScan(r, searchText) ==
    /\ smSnips' = r.snips
    /\ smSearchFrom' = r.searchFrom
    /\ smMatchStart' = r.matchStart
    /\ smFullText' = searchText
    /\ IF r.kind = "full"
       THEN /\ smPc' = "done"
            /\ smRet' = RetSnips(r.snips, "nil")
            /\ UNCHANGED smPrevTail
       ELSE IF r.kind = "outer"
       THEN /\ smPc' = "outer"
            /\ smPrevTail' = tailRunes(searchText,
                                 keepRunes(smQuery, NormContext(smContextLen)))
            /\ UNCHANGED smRet
       ELSE /\ smPc' = "more"
            /\ UNCHANGED <<smPrevTail, smRet>>

\* streamFindSnippets at the top of its chunk loop: the test of ctx.Err().
SnippetsCtxErr ==
    /\ smFn = "snippets" /\ smPc = "outer"
    /\ IF ctxErrBeforePull(smCtxErr)
       THEN /\ smPc' = "done"
            /\ smRet' = RetSnips(<<>>, "canceled")
       ELSE /\ smPc' = "next"
            /\ UNCHANGED smRet
    /\ UNCHANGED <<smFn, smText, smChunks, smQuery, smContextLen, smMaxSnippets, smCtxErr,
                   smPrevTail, smFullText, smSearchFrom, smMatchStart, smSnips,
                   smLatePull>>
    /\ UNCHANGED smRest

\* streamFindSnippets, the rest of the turn of the chunk loop: next(ctx)
\* and the scan of prevTail + chunk.  An empty fragment without an error
\* is skipped (continue): nothing is scanned and prevTail stays.
SnippetsPull ==
    /\ smFn = "snippets" /\ smPc = "next"
    /\ IF smChunks = <<>>
       THEN /\ smPc' = "done"
            /\ smRet' = RetSnips(smSnips, "nil")
            /\ smLatePull' = smLatePull + (IF smCtxErr THEN 1 ELSE 0)
            /\ UNCHANGED <<smChunks, smPrevTail, smFullText, smSearchFrom, smMatchStart,
                           smSnips>>
       ELSE IF Head(smChunks) = <<>>
       THEN /\ smChunks' = Tail(smChunks)
            /\ smLatePull' = smLatePull + (IF smCtxErr THEN 1 ELSE 0)
            /\ smPc' = "outer"
            /\ UNCHANGED <<smPrevTail, smFullText, smSearchFrom, smMatchStart, smSnips,
                           smRet>>
       ELSE LET searchText == smPrevTail \o Head(smChunks) IN
            /\ smChunks' = Tail(smChunks)
            /\ smLatePull' = smLatePull + (IF smCtxErr THEN 1 ELSE 0)
            /\ AfterScan(SnippetScan(searchText, 0, smSnips, smQuery,
                                     NormContext(smContextLen),
                                     NormMaxSnippets(smMaxSnippets)), searchText)
    /\ UNCHANGED <<smFn, smText, smQuery, smContextLen, smMaxSnippets, smCtxErr>>
    /\ UNCHANGED smRest

\* streamFindSnippets at the top of its right-context loop (more context
\* is needed): the test of ctx.Err().
SnippetsMoreCtxErr ==
    /\ smFn = "snippets" /\ smPc = "more"
    /\ IF ctxErrBeforeMore(smCtxErr)
       THEN /\ smPc' = "done"
            /\ smRet' = RetSnips(<<>>, "canceled")
       ELSE /\ smPc' = "moreNext"
            /\ UNCHANGED smRet
    /\ UNCHANGED <<smFn, smText, smChunks, smQuery, smContextLen, smMaxSnippets, smCtxErr,
                   smPrevTail, smFullText, smSearchFrom, smMatchStart, smSnips,
                   smLatePull>>
    /\ UNCHANGED smRest

\* streamFindSnippets, the rest of the turn of the right-context loop:
\* next(ctx); when the loop ends the snippet is appended and the inner loop
\* goes on (or returns on EOF).
SnippetsMore ==
    /\ smFn = "snippets" /\ smPc = "moreNext"
    /\ LET c == NormContext(smContextLen)
           matchEnd == smMatchStart + Len(smQuery)
           nextFrom == IF matchEnd <= smSearchFrom THEN smSearchFrom + 1 ELSE matchEnd
       IN
       IF smChunks = <<>>
       THEN LET out == Append(smSnips, BuildSnippet(smFullText, smMatchStart, matchEnd, c)) IN
            /\ smPc' = "done"
            /\ smSnips' = out
            /\ smSearchFrom' = nextFrom
            /\ smRet' = RetSnips(out, "nil")
            /\ smLatePull' = smLatePull + (IF smCtxErr THEN 1 ELSE 0)
            /\ UNCHANGED <<smChunks, smPrevTail, smFullText, smMatchStart>>
       ELSE LET fullText == smFullText \o Head(smChunks) IN
            /\ smChunks' = Tail(smChunks)
            /\ smLatePull' = smLatePull + (IF smCtxErr THEN 1 ELSE 0)
            /\ IF hasEnoughRightContext(fullText, matchEnd, c)
               THEN AfterScan(SnippetScan(fullText, nextFrom,
                                  Append(smSnips, BuildSnippet(fullText, smMatchStart, matchEnd, c)),
                                  smQuery, c, NormMaxSnippets(smMaxSnippets)), fullText)
               ELSE /\ smPc' = "more"
                    /\ smFullText' = fullText
                    /\ UNCHANGED <<smPrevTail, smSearchFrom, smMatchStart, smSnips, smRet>>
    /\ UNCHANGED <<smFn, smText, smQuery, smContextLen, smMaxSnippets, smCtxErr>>
    /\ UNCHANGED smRest

\* The caller cancels ctx while the matcher runs (or before it is called).
StreamCancel ==
    /\ smPc # "done"
    /\ ~smCtxErr
    /\ smCtxErr' = TRUE
    /\ UNCHANGED <<smFn, smText, smChunks, smQuery, smContextLen, smMaxSnippets,
                   smPc, smPrevTail, smFullText, smSearchFrom, smMatchStart, smSnips,
                   smRet, smLatePull>>
    /\ UNCHANGED smRest

----
\* ======================= harness of the streaming matcher ================

MaxCoreLen == 2
MaxCuts == 2

\* Texts: short ones, and the same behind a run of "b" long enough for the
\* bounded tail to be cut (longer than keepRunes for short terms).
PadLen == TailMargin + 4
Pad == [i \in 1..PadLen |-> "b"]
StreamCores == SeqsOf(Alphabet, 1, MaxCoreLen)
StreamTexts == StreamCores \cup {Pad \o c : c \in StreamCores}
StreamQueries == {<<"a">>, <<"b">>, <<" ">>, <<"a", "b">>, <<"b", "a">>,
                  <<"a", "a">>, <<"b", "b">>}

\* Fragment boundaries: any offsets inside a short text, offsets near the end
\* of a long one.
CutCandidates(t) ==
    IF Len(t) <= PadLen THEN 1..(Len(t) - 1)
    ELSE (Len(t) - MaxCoreLen - 2)..(Len(t) - 1)
CutSets(t) == {S \in SUBSET CutCandidates(t) : Cardinality(S) <= MaxCuts}

\* The non-empty fragments of t cut at the offsets of S.
RECURSIVE SplitAt(_, _, _)
SplitAt(t, S, from) ==
    LET later == {c \in S : c > from} IN
    IF later = {} THEN <<SubSeq(t, from + 1, Len(t))>>
    ELSE <<SubSeq(t, from + 1, SetMin(later))>> \o SplitAt(t, S, SetMin(later))

\* Concatenation of a sequence of fragments.
RECURSIVE Concat(_)
Concat(ss) == IF ss = <<>> THEN <<>> ELSE Head(ss) \o Concat(Tail(ss))

\* A source may also return an empty fragment with a nil error (a page
\* without text, a read that holds only part of a code point): the
\* fragments cs with an empty one put in before the k-th, none for k = 0.
\* The short texts get one at any place, the long ones none.
WithEmpty(cs, k) ==
    IF k = 0 THEN cs
    ELSE SubSeq(cs, 1, k - 1) \o <<<<>>>> \o SubSeq(cs, k, Len(cs))
EmptyPlaces(t, cs) == IF Len(t) <= PadLen THEN 0..(Len(cs) + 1) ELSE {0}

SmInit ==
    /\ smFn \in {"first", "snippets"}
    /\ smText \in StreamTexts
    /\ \E S \in CutSets(smText) :
          \E k \in EmptyPlaces(smText, SplitAt(smText, S, 0)) :
             smChunks = WithEmpty(SplitAt(smText, S, 0), k)
    /\ smQuery \in StreamQueries
    /\ smContextLen \in 0..MaxContext
    /\ smMaxSnippets \in (IF smFn = "first" THEN {1} ELSE 1..MaxSnips)
    /\ smCtxErr = FALSE
    /\ smPc = "entry"
    /\ smPrevTail = <<>>
    /\ smFullText = <<>>
    /\ smSearchFrom = 0
    /\ smMatchStart = 0
    /\ smSnips = <<>>
    /\ smRet = NoRet
    /\ smLatePull = 0

SmNext ==
    \/ StreamEnter
    \/ FirstCtxErr
    \/ FirstPull
    \/ FirstMoreCtxErr
    \/ FirstMore
    \/ SnippetsCtxErr
    \/ SnippetsPull
    \/ SnippetsMoreCtxErr
    \/ SnippetsMore
    \/ StreamCancel

\* The harness variables of the other components, at rest.
FsIdle ==
    /\ fsPc = "idle" /\ fsText = <<>> /\ fsQuery = <<>> /\ fsContextLen = 0
    /\ fsMaxSnippets = 0 /\ fsRet = <<>> /\ fsRetB = <<>>


----
\* ======================= claims on the streaming matcher =================

\* The run was never cancelled and has returned.
StreamFinished == smPc = "done" /\ ~smCtxErr

\* C5 (as stated): for every non-empty term, streamFindFirst over any
\* fragmentation returns found with the snippet FindSnippets(T, Q, C, 1)
\* returns, and not found when Q does not occur in T.
C5_FirstEqualsSingleShot_AnyTerm ==
    (StreamFinished /\ smFn = "first" /\ Len(smQuery) > 0)
    => LET want == FindSnippets(smText, smQuery, smContextLen, 1) IN
       IF want = <<>> THEN ~smRet.found
       ELSE smRet.found /\ smRet.snippet = want[1]

\* C5 (amended): the same for every term that is not blank, i.e. not empty
\* after strings.TrimSpace.
C5_FirstEqualsSingleShot ==
    (StreamFinished /\ smFn = "first" /\ stringsTrimSpace(smQuery) # <<>>)
    => LET want == FindSnippets(smText, smQuery, smContextLen, 1) IN
       /\ smRet.err = "nil"
       /\ IF want = <<>> THEN ~smRet.found /\ smRet.snippet = <<>>
          ELSE smRet.found /\ smRet.snippet = want[1]

\* C5 witness: a match that starts in the cut tail of a long text and ends in
\* the next fragment, returned with its left context.
C5_Witness ==
    /\ StreamFinished /\ smFn = "first"
    /\ smText = Pad \o <<"a", "b">> /\ smQuery = <<"b", "a">> /\ smContextLen = 1
    /\ Len(smPrevTail) = keepRunes(smQuery, smContextLen) /\ Len(smPrevTail) < PadLen
    /\ smRet.found
    /\ smRet.snippet = <<"b", OpenMark, "b", "a", CloseMark, "b">>

\* C8: streamFindSnippets over any fragmentation returns the snippet list
\* FindSnippets(T, Q, C, N) returns.
C8_SnippetsEqualSingleShot ==
    (StreamFinished /\ smFn = "snippets" /\ stringsTrimSpace(smQuery) # <<>>)
    => smRet.snips = FindSnippets(smText, smQuery, smContextLen, smMaxSnippets)

\* The call returned the cancellation error and nothing else.
ReturnedCanceled ==
    /\ smRet.err = "canceled"
    /\ ~smRet.found /\ smRet.snippet = <<>> /\ smRet.snips = <<>>

\* The function is past a ctx.Err() test and at the next(ctx) that follows.
AtNext == smPc \in {"next", "moreNext"}

\* C9 (as stated): once ctx is cancelled no fragment is pulled, and the
\* function returns the cancellation error with found = false / no snippets.
C9_Cancellation_NoLatePull ==
    /\ smLatePull = 0
    /\ (smPc = "done" /\ smCtxErr /\ stringsTrimSpace(smQuery) # <<>>)
       => ReturnedCanceled

\* C9 (amended): after the cancellation next() is called at most once, by
\* the turn that was past its ctx.Err() test when ctx was cancelled, and
\* after that call the function is never at a next() again; a call that
\* returns after the cancellation returns the cancellation error with
\* found = false / no snippets, unless that one late call of next() ended
\* it; the cancellation error never comes with a snippet.
C9_Cancellation ==
    /\ smLatePull <= 1
    /\ (AtNext /\ smCtxErr) => smLatePull = 0
    /\ smRet.err = "canceled" => ReturnedCanceled /\ smCtxErr
    /\ (smPc = "done" /\ smCtxErr /\ stringsTrimSpace(smQuery) # <<>>)
       => \/ ReturnedCanceled
          \/ smRet.err = "nil" /\ smLatePull = 1

\* C9 witness: streamFindSnippets cancelled while it waited for right context
\* with one snippet already collected; it returns the error and no snippet.
C9_Witness ==
    /\ smFn = "snippets" /\ smPc = "done" /\ smCtxErr
    /\ Len(smSnips) > 0 /\ smChunks # <<>>
    /\ smRet = RetSnips(<<>>, "canceled")

\* C9 witness: ctx was cancelled between a ctx.Err() test and the next(ctx)
\* after it; that call ended streamFindSnippets, which returned its snippets
\* and a nil error.
C9_WitnessLatePull ==
    /\ smFn = "snippets" /\ smPc = "done" /\ smCtxErr /\ smLatePull = 1
    /\ smRet.err = "nil" /\ smRet.snips # <<>>

\* C9 witness: the same cancellation in streamFindFirst; the late call of
\* next() gave a fragment, and the test of the next turn ended the call.
C9_WitnessLateThenTest ==
    /\ smFn = "first" /\ smPc = "done" /\ smCtxErr /\ smLatePull = 1
    /\ smChunks # <<>> /\ ReturnedCanceled

\* The matcher is between two turns of its chunk loop: no match is pending.
BetweenPulls == smPc \in {"outer", "next"}

\* C28: between two turns of the chunk loop of streamFindFirst and
\* streamFindSnippets, what is kept of the fragments consumed so far
\* (prevTail) is at most contextLen + RuneCount(query) + 8 code points, and
\* it is the end of the text consumed so far.
C28_BoundedTail ==
    BetweenPulls =>
       /\ Len(smPrevTail) <= NormContext(smContextLen) + Len(smQuery) + 8
       /\ LET consumed == Len(smText) - Len(Concat(smChunks))
          IN smPrevTail = SubSeq(smText, consumed - Len(smPrevTail) + 1, consumed)

\* C28 witness: more was consumed than is kept: the tail was cut to the
\* bound, in streamFindSnippets after a match was reported.
C28_Witness ==
    /\ BetweenPulls /\ smFn = "snippets" /\ smSnips # <<>>
    /\ Len(smPrevTail) = NormContext(smContextLen) + Len(smQuery) + 8
    /\ Len(smText) - Len(Concat(smChunks)) > Len(smPrevTail)

\* C28 witness: the same in streamFindFirst.
C28_WitnessFirst ==
    /\ BetweenPulls /\ smFn = "first" /\ smChunks # <<>>
    /\ Len(smPrevTail) = NormContext(smContextLen) + Len(smQuery) + 8
    /\ Len(smText) - Len(Concat(smChunks)) > Len(smPrevTail)

\* C29 (as stated): the snippets streamFindSnippets returns are the snippets
\* of occurrences of the term at strictly increasing offsets of the whole
\* text that do not overlap: no occurrence is reported twice.
C29_ReportedOnce ==
    (StreamFinished /\ smFn = "snippets" /\ stringsTrimSpace(smQuery) # <<>>)
    => \E P \in [1..Len(smRet.snips) -> Occurrences(smText, smQuery)] :
          /\ \A k \in 1..(Len(smRet.snips) - 1) : P[k] + Len(smQuery) <= P[k + 1]
          /\ \A k \in 1..Len(smRet.snips) :
                smRet.snips[k] = ShapeAt(smText, smQuery, NormContext(smContextLen), P[k])

----
\* ======================= internal/cache: the extraction cache ============
\* Text is a sequence of bytes here (valid UTF-8); one cache entry, that of
\* one absolute path, is modelled.

\* UTF-8 encodings of the code points cached text is built from:
\* "a" and U+4F60.
CodePointBytes == {<<97>>, <<228, 189, 160>>}

\* effectiveMaxTextBytes falls back to 2 MiB.
DefaultMaxTextBytes == 2097152

\* The header is two little-endian 64-bit words.
HeaderLen == 16

\* (c *Cache) effectiveMaxTextBytes()
effectiveMaxTextBytes(maxTextBytes) ==
    IF maxTextBytes > 0 THEN maxTextBytes ELSE DefaultMaxTextBytes

\* utf8.RuneStart(b): b is not a continuation byte 10xxxxxx.
RuneStart(b) == b < 128 \/ b >= 192

\* A mutant of truncateCut: the cut stays where the budget puts it.
truncateCut_NoMove(s, cut) == cut

\* The loop of truncateUTF8ToBytes: move the cut left to a rune start.
RECURSIVE truncateCut(_, _)
truncateCut(s, cut) ==
    IF cut > 0 /\ cut < Len(s) /\ ~RuneStart(s[cut + 1]) THEN truncateCut(s, cut - 1)
    ELSE cut

\* truncateUTF8ToBytes(s, maxBytes)
truncateUTF8ToBytes(s, maxBytes) ==
    IF maxBytes <= 0 \/ Len(s) <= maxBytes THEN s
    ELSE LET cut == truncateCut(s, maxBytes) IN
         IF cut <= 0 THEN <<>> ELSE SubSeq(s, 1, cut)

\* putLE64(dst, v): the 8 bytes of v, least significant first (v >= 0 here).
RECURSIVE putLE64(_, _)
putLE64(v, n) == IF n = 0 THEN <<>> ELSE <<v % 256>> \o putLE64(v \div 256, n - 1)

\* le64(b): the value of 8 little-endian bytes.
RECURSIVE le64(_)
le64(b) == IF b = <<>> THEN 0 ELSE Head(b) + 256 * le64(Tail(b))

\* compress/gzip.  A payload is what follows the header in the entry file:
\* valid is FALSE when gzip.NewReader rejects it (bad magic, short header);
\* text is what the stream unpacks to; errAt is -1 for a sound stream, and
\* otherwise the number of the byte whose Read fails.  A wrong CRC-32 or
\* length in the trailer, or a stream cut short, surfaces in the Read that
\* delivers the last byte of the stream (gzip verifies the trailer when the
\* decompressor reports io.EOF): errAt = Len(text).
NoReadError == -1
Gzip(text) == [valid |-> TRUE, text |-> text, errAt |-> NoReadError]
CorruptPayload == [valid |-> FALSE, text |-> <<>>, errAt |-> NoReadError]
DamagedPayload(text) == [valid |-> TRUE, text |-> text, errAt |-> Len(text)]

\* io.ReadAll(io.LimitReader(zr, n)): the reader asks zr for at most n bytes
\* and never calls it again once it has them, so an error of zr that lies
\* beyond byte n is not met.
ReadAllLimited(payload, n) ==
    IF payload.errAt # NoReadError /\ payload.errAt <= n
    THEN [err |-> TRUE, b |-> <<>>]
    ELSE [err |-> FALSE, b |-> SubSeq(payload.text, 1, Min(n, Len(payload.text)))]

\* The file at cachePath: absent, or header bytes followed by a payload.
NoEntry == [exists |-> FALSE, hdr |-> <<>>, payload |-> CorruptPayload]
EntryFile(hdr, payload) == [exists |-> TRUE, hdr |-> hdr, payload |-> payload]

\* A mutant of tryRead: the fingerprint of the header is not compared.
tryRead_AnyFingerprint(entry, size, mtime, maxTextBytes) ==
    IF ~entry.exists THEN [ok |-> FALSE, text |-> <<>>]
    ELSE IF Len(entry.hdr) < HeaderLen THEN [ok |-> FALSE, text |-> <<>>]
    ELSE LET maxBytes == effectiveMaxTextBytes(maxTextBytes)
         IN IF ~entry.payload.valid THEN [ok |-> FALSE, text |-> <<>>]
            ELSE LET rd == ReadAllLimited(entry.payload, maxBytes + 1) IN
                 IF rd.err THEN [ok |-> FALSE, text |-> <<>>]
                 ELSE [ok |-> TRUE,
                       text |-> IF Len(rd.b) > maxBytes THEN SubSeq(rd.b, 1, maxBytes)
                                ELSE rd.b]

\* (c *Cache) tryRead(path, size, mtime): (text, ok).
tryRead(entry, size, mtime, maxTextBytes) ==
    IF ~entry.exists THEN [ok |-> FALSE, text |-> <<>>]
    ELSE IF Len(entry.hdr) < HeaderLen THEN [ok |-> FALSE, text |-> <<>>]
    ELSE LET cachedM == le64(SubSeq(entry.hdr, 1, 8))
             cachedS == le64(SubSeq(entry.hdr, 9, 16))
             maxBytes == effectiveMaxTextBytes(maxTextBytes)
         IN IF cachedS # size \/ cachedM # mtime THEN [ok |-> FALSE, text |-> <<>>]
            ELSE IF ~entry.payload.valid THEN [ok |-> FALSE, text |-> <<>>]
            ELSE LET rd == ReadAllLimited(entry.payload, maxBytes + 1) IN
                 IF rd.err THEN [ok |-> FALSE, text |-> <<>>]
                 ELSE [ok |-> TRUE,
                       text |-> IF Len(rd.b) > maxBytes THEN SubSeq(rd.b, 1, maxBytes)
                                ELSE rd.b]

\* A mutant of write: the two header words are stored in the wrong order.
write_SwappedHeader(entry, size, mtime, text, maxTextBytes, ioOk) ==
    IF ~ioOk THEN entry
    ELSE EntryFile(putLE64(size, 8) \o putLE64(mtime, 8), Gzip(text))

\* (c *Cache) write(path, size, mtime, text): the entry file afterwards.  ioOk
\* is FALSE when MkdirAll, Create, a Write, Close or Rename fails: the entry
\* is then left as it was (the temp file is removed).
write(entry, size, mtime, text, maxTextBytes, ioOk) ==
    LET maxBytes == effectiveMaxTextBytes(maxTextBytes)
        t == IF Len(text) > maxBytes THEN truncateUTF8ToBytes(text, maxBytes) ELSE text
    IN IF ~ioOk THEN entry
       ELSE EntryFile(putLE64(mtime, 8) \o putLE64(size, 8), Gzip(t))

\* A mutant of hardCap: the extractor's text is not cut to the budget.
hardCap_NoCut(text, maxTextBytes) == text

\* GetOrExtract, the hard cap on the extractor's text: a text longer than
\* the budget is cut by truncateUTF8ToBytes.
hardCap(text, maxTextBytes) ==
    LET maxBytes == effectiveMaxTextBytes(maxTextBytes)
    IN IF Len(text) > maxBytes THEN truncateUTF8ToBytes(text, maxBytes) ELSE text

----
\* ======================= harness of the cache ============================

MaxCacheRunes == 1
MaxStat == 2
MaxEpoch == 1

\* Texts an extractor may return: up to MaxCacheRunes code points.
RECURSIVE Flatten(_)
Flatten(ss) == IF ss = <<>> THEN <<>> ELSE Head(ss) \o Flatten(Tail(ss))

CacheTexts == {Flatten(cps) : cps \in SeqsOf(CodePointBytes, 0, MaxCacheRunes)}

\* What an extractor call does: fail, or return a text.
ExtractorOutcomes ==
    {[err |-> TRUE, text |-> <<>>]} \cup {[err |-> FALSE, text |-> t] : t \in CacheTexts}

\* Values of Cache.MaxTextBytes: unset (the 2 MiB default) and a small budget
\* that cuts a three-byte code point.
MaxTextBytesValues == {0, 2}

RegularFiles ==
    [exists : {TRUE}, regular : {TRUE}, size : 1..MaxStat, mtime : 1..MaxStat]
\* What os.Stat reports when the first call is made: a regular file whose
\* size and modification time differ, no file, or a directory.  ModifyFile
\* leads from the regular file to every other one of RegularFiles.
StatResults ==
    {[exists |-> TRUE, regular |-> TRUE, size |-> 1, mtime |-> MaxStat],
     [exists |-> FALSE, regular |-> FALSE, size |-> 0, mtime |-> 0],
     [exists |-> TRUE, regular |-> FALSE, size |-> 0, mtime |-> 1]}

\* What an earlier process may have left at cachePath: nothing, a file cut
\* inside the header, an entry with a corrupt payload, an entry of another
\* fingerprint, an entry whose payload is longer than the budget, and entries
\* whose gzip stream is damaged at its end (of three and of four bytes).
InitialEntries(file) ==
    {NoEntry,
     EntryFile(<<1, 0, 0>>, CorruptPayload),
     EntryFile(putLE64(file.mtime, 8) \o putLE64(file.size, 8), CorruptPayload),
     EntryFile(putLE64(file.mtime + 1, 8) \o putLE64(file.size, 8), Gzip(<<97>>)),
     EntryFile(putLE64(file.mtime, 8) \o putLE64(file.size, 8),
               Gzip(<<97, 228, 189, 160, 97, 97>>)),
     EntryFile(putLE64(file.mtime, 8) \o putLE64(file.size, 8),
               DamagedPayload(<<97, 97, 97>>)),
     EntryFile(putLE64(file.mtime, 8) \o putLE64(file.size, 8),
               DamagedPayload(<<97, 97, 97, 97>>))}

\* How a call of GetOrExtract finds the entry, against the file's stat.
EntryClass(entry, file) ==
    IF ~entry.exists THEN "missing"
    ELSE IF Len(entry.hdr) < HeaderLen THEN "short"
    ELSE IF \/ le64(SubSeq(entry.hdr, 1, 8)) # file.mtime
            \/ le64(SubSeq(entry.hdr, 9, 16)) # file.size THEN "stale"
    ELSE IF ~entry.payload.valid \/ entry.payload.errAt # NoReadError THEN "corrupt"
    ELSE "sound"

\* The extractor was not called.
NoExtract == [err |-> FALSE, text |-> <<>>]

\* What os.Stat reports for a path that does not exist.
NoFile == [exists |-> FALSE, regular |-> FALSE, size |-> 0, mtime |-> 0]

NoMiss == [seen |-> FALSE, text |-> <<>>, wrote |-> FALSE, st |-> NoFile, ret |-> NoFile]

\* The outcome of a call: st is the file as its os.Stat saw it, ret the file
\* as it was when the call returned.
NoCall == [called |-> FALSE, text |-> <<>>, err |-> "none", hit |-> FALSE,
           invoked |-> FALSE, wrote |-> FALSE,
           pre |-> "none", ex |-> NoExtract, st |-> NoFile, ret |-> NoFile]

\* No call of GetOrExtract is in progress.
NoCallInProgress ==
    [pc |-> "idle", st |-> NoFile, pre |-> "none", ex |-> NoExtract, text |-> <<>>]

CaInit ==
    /\ caMaxTextBytes \in MaxTextBytesValues
    /\ caFile \in StatResults
    /\ caEntry \in InitialEntries(caFile)
    /\ caEpoch = 0
    /\ caCall = NoCallInProgress
    /\ caMiss = NoMiss
    /\ caLast = NoCall

\* The call in progress returns (text, err): the record of the last call,
\* and of the latest miss when the call is one.
Return(c, text, err, hit, invoked, wrote) ==
    /\ caCall' = NoCallInProgress
    /\ caLast' = [called |-> TRUE, text |-> text, err |-> err, hit |-> hit,
                  invoked |-> invoked, wrote |-> wrote,
                  pre |-> c.pre, ex |-> c.ex, st |-> c.st, ret |-> caFile]
    /\ caMiss' = IF err = "nil" /\ ~hit
                 THEN [seen |-> TRUE, text |-> text, wrote |-> wrote,
                       st |-> c.st, ret |-> caFile]
                 ELSE caMiss

\* GetOrExtract(ctx, absPath, e) is called: os.Stat and the test of the
\* mode.  The os.FileInfo st is what the rest of the call works with.
CallGetOrExtract ==
    /\ caCall.pc = "idle"
    /\ \E c \in {[NoCallInProgress EXCEPT !.st = caFile]} :
         IF ~caFile.exists THEN Return(c, <<>>, "stat", FALSE, FALSE, FALSE)
         ELSE IF ~caFile.regular
         THEN Return(c, <<>>, "not a regular file", FALSE, FALSE, FALSE)
         ELSE /\ caCall' = [c EXCEPT !.pc = "read"]
              /\ UNCHANGED <<caMiss, caLast>>
    /\ UNCHANGED <<caMaxTextBytes, caFile, caEntry, caEpoch>>
    /\ UNCHANGED caRest

\* c.tryRead(cp, st.Size(), st.ModTime()): a hit is returned, otherwise the
\* call goes on to the extractor.
GetOrExtractRead ==
    /\ caCall.pc = "read"
    /\ \E r \in {tryRead(caEntry, caCall.st.size, caCall.st.mtime, caMaxTextBytes)} :
       \E c \in {[caCall EXCEPT !.pre = EntryClass(caEntry, caCall.st)]} :
         IF r.ok THEN Return(c, r.text, "nil", TRUE, FALSE, FALSE)
         ELSE /\ caCall' = [c EXCEPT !.pc = "extract"]
              /\ UNCHANGED <<caMiss, caLast>>
    /\ UNCHANGED <<caMaxTextBytes, caFile, caEntry, caEpoch>>
    /\ UNCHANGED caRest

\* extractor(ctx, absPath) returns, with an error or with a text (the
\* environment's choice); the text is cut to the budget.
GetOrExtractExtract ==
    /\ caCall.pc = "extract"
    /\ \E ex \in ExtractorOutcomes :
       \E c \in {[caCall EXCEPT !.ex = ex]} :
         IF ex.err THEN Return(c, <<>>, "extractor", FALSE, TRUE, FALSE)
         ELSE /\ caCall' = [c EXCEPT !.pc = "write",
                                     !.text = hardCap(ex.text, caMaxTextBytes)]
              /\ UNCHANGED <<caMiss, caLast>>
    /\ UNCHANGED <<caMaxTextBytes, caFile, caEntry, caEpoch>>
    /\ UNCHANGED caRest

\* _ = c.write(cp, st.Size(), st.ModTime(), text) and the return of the
\* text: the entry gets the size and mtime of st, whatever the file is by
\* now; the fate of the write is the environment's choice.
GetOrExtractWrite ==
    /\ caCall.pc = "write"
    /\ \E ioOk \in BOOLEAN :
         /\ caEntry' = write(caEntry, caCall.st.size, caCall.st.mtime, caCall.text,
                             caMaxTextBytes, ioOk)
         /\ Return(caCall, caCall.text, "nil", FALSE, TRUE, ioOk)
    /\ UNCHANGED <<caMaxTextBytes, caFile, caEpoch>>
    /\ UNCHANGED caRest

\* The file is rewritten: its size or its modification time changes.  This
\* happens at any time, also while a call is between its os.Stat and its
\* return.
ModifyFile ==
    /\ caFile.exists /\ caFile.regular
    /\ caEpoch < MaxEpoch
    /\ \E f \in RegularFiles :
         /\ <<f.size, f.mtime>> # <<caFile.size, caFile.mtime>>
         /\ caFile' = f
    /\ caEpoch' = caEpoch + 1
    /\ UNCHANGED <<caMaxTextBytes, caEntry, caCall, caMiss, caLast>>
    /\ UNCHANGED caRest

CaNext ==
    \/ CallGetOrExtract
    \/ GetOrExtractRead
    \/ GetOrExtractExtract
    \/ GetOrExtractWrite
    \/ ModifyFile

CaIdle ==
    /\ caMaxTextBytes = 0 /\ caFile = NoFile
    /\ caEntry = NoEntry /\ caEpoch = 0 /\ caCall = NoCallInProgress /\ caMiss = NoMiss
    /\ caLast = NoCall


----
\* ======================= claims on the cache =============================

\* A step is the return of a call of GetOrExtract: the call in progress
\* ends, or (os.Stat failed, or the path is no regular file) a call ends in
\* the step that starts it.
CallReturns ==
    /\ caCall'.pc = "idle"
    /\ caCall.pc # "idle" \/ caLast' # caLast

C10_WitnessRace ==
    /\ caMiss.seen /\ caMiss.wrote /\ caMiss.st # caMiss.ret
    /\ caCall.pc = "extract" /\ caCall.pre = "stale"
    /\ caCall.st = caMiss.ret /\ caFile = caMiss.ret

\* The text a miss returns for the extractor's text t: t cut to the budget.
BudgetCut(t) ==
    IF Len(t) > effectiveMaxTextBytes(caMaxTextBytes)
    THEN truncateUTF8ToBytes(t, effectiveMaxTextBytes(caMaxTextBytes)) ELSE t

\* The last call was made on a regular file (os.Stat and IsRegular passed).
CalledOnFile == caLast.called /\ caLast.st.exists /\ caLast.st.regular

\* The last call ran the extractor, which returned a text.
ExtractedText == caLast.invoked /\ ~caLast.ex.err

\* C11 (as stated): a call that finds an entry whose header holds another
\* size or mtime than the file's is a miss, not an error: the extractor
\* runs, its text is returned, and the entry is rewritten so that a read
\* under the fingerprint of the file as the call left it now hits with
\* that text.
C11_Invalidation_AnyWrite ==
    (CalledOnFile /\ caLast.pre = "stale")
    => /\ ~caLast.hit /\ caLast.invoked
       /\ ExtractedText
          => /\ caLast.err = "nil" /\ caLast.text = BudgetCut(caLast.ex.text)
             /\ tryRead(caEntry, caLast.ret.size, caLast.ret.mtime, caMaxTextBytes)
                = [ok |-> TRUE, text |-> caLast.text]

\* C11 (amended): the same, the entry being rewritten when the cache write
\* succeeded, with the size and mtime the os.Stat of the call saw; when
\* the write failed the call still returns the fresh text.
C11_Invalidation ==
    (CalledOnFile /\ caLast.pre = "stale")
    => /\ ~caLast.hit /\ caLast.invoked
       /\ ExtractedText
          => /\ caLast.err = "nil" /\ caLast.text = BudgetCut(caLast.ex.text)
             /\ caLast.wrote
                => /\ tryRead(caEntry, caLast.st.size, caLast.st.mtime, caMaxTextBytes)
                      = [ok |-> TRUE, text |-> caLast.text]
                   /\ le64(SubSeq(caEntry.hdr, 1, 8)) = caLast.st.mtime
                   /\ le64(SubSeq(caEntry.hdr, 9, 16)) = caLast.st.size

\* C11 witness: after the file was rewritten, a call found the entry of the
\* old fingerprint, ran the extractor and stored the new text.
C11_Witness ==
    /\ CalledOnFile /\ caLast.pre = "stale" /\ caEpoch = 1
    /\ caLast.invoked /\ caLast.wrote /\ caLast.text = <<97>>
    /\ caEntry.payload = Gzip(<<97>>)
    /\ caLast.st = caLast.ret /\ caFile = caLast.ret
    /\ le64(SubSeq(caEntry.hdr, 1, 8)) = caFile.mtime

\* C11 witness: a call found a stale entry and stored the new text while
\* the file was rewritten under it: the header of the entry is that of
\* the file as os.Stat saw it, not of the file at the return.
C11_WitnessRace ==
    /\ CalledOnFile /\ caLast.pre = "stale" /\ caLast.wrote
    /\ caLast.st # caLast.ret /\ caFile = caLast.ret
    /\ le64(SubSeq(caEntry.hdr, 1, 8)) = caLast.st.mtime
    /\ le64(SubSeq(caEntry.hdr, 9, 16)) = caLast.st.size

\* C13: a text GetOrExtract returns without error is never longer than the
\* effective budget, and a hit on a payload longer than the budget returns
\* exactly budget bytes.
C13_BudgetCap ==
    (caLast.called /\ caLast.err = "nil")
    => /\ Len(caLast.text) <= effectiveMaxTextBytes(caMaxTextBytes)
       /\ (caLast.hit /\ Len(caEntry.payload.text) > effectiveMaxTextBytes(caMaxTextBytes))
          => Len(caLast.text) = effectiveMaxTextBytes(caMaxTextBytes)
       /\ (~caLast.hit) => caLast.text = BudgetCut(caLast.ex.text)

\* C13 witness (hit path): a stored payload of six bytes read under a
\* budget of two bytes.
C13_Witness ==
    /\ caLast.called /\ caLast.hit /\ caMaxTextBytes = 2
    /\ caEntry.payload = Gzip(<<97, 228, 189, 160, 97, 97>>)
    /\ caLast.text = <<97, 228>>

\* C13 witness (miss path): the extractor returned a three-byte code point
\* under a budget of two bytes.
C13_WitnessMiss ==
    /\ caLast.called /\ caLast.invoked /\ caMaxTextBytes = 2
    /\ caLast.ex = [err |-> FALSE, text |-> <<228, 189, 160>>]
    /\ caLast.text = <<>> /\ caLast.err = "nil"

\* C14 (as stated): a call that finds the entry missing, cut inside the
\* header or with a corrupt payload is a miss: the extractor runs and its
\* text is returned with no error; and a failed cache write leaves a
\* successful extraction without error.
C14_SoftFailure ==
    /\ (CalledOnFile /\ caLast.pre \in {"missing", "short", "corrupt"})
       => /\ ~caLast.hit /\ caLast.invoked
          /\ ExtractedText
             => caLast.err = "nil" /\ caLast.text = BudgetCut(caLast.ex.text)
    /\ (CalledOnFile /\ ExtractedText /\ ~caLast.wrote) => caLast.err = "nil"

----
\* ======================= harness of truncateUTF8ToBytes ==================

MaxTruncRunes == 3
MaxTruncBytes == 5

\* UTF-8 encodings of one code point of each length: "a", U+00E9, U+4F60,
\* U+1F600.
TruncCodePoints ==
    {<<97>>, <<195, 169>>, <<228, 189, 160>>, <<240, 159, 152, 128>>}

TrInit ==
    /\ trPc = "call"
    /\ trRunes \in SeqsOf(TruncCodePoints, 0, MaxTruncRunes)
    /\ trS = Flatten(trRunes)
    /\ trMaxBytes \in 0..MaxTruncBytes
    /\ trRet = <<>>

\* One call truncateUTF8ToBytes(s, maxBytes); s is valid UTF-8.
CallTruncate ==
    /\ trPc = "call"
    /\ trPc' = "ret"
    /\ trRet' = truncateUTF8ToBytes(trS, trMaxBytes)
    /\ UNCHANGED <<trRunes, trS, trMaxBytes>>
    /\ UNCHANGED trRest

TrNext == CallTruncate

TrIdle == trPc = "idle" /\ trRunes = <<>> /\ trS = <<>> /\ trMaxBytes = 0 /\ trRet = <<>>

\* ======================= claims on truncateUTF8ToBytes ===================

\* The prefixes of s that end on a code-point boundary: the encodings of
\* the first k code points.
BoundaryPrefix(k) == Flatten(SubSeq(trRunes, 1, k))

\* The number of code points of the longest such prefix within maxBytes.
LongestFit ==
    CHOOSE k \in 0..Len(trRunes) :
        /\ Len(BoundaryPrefix(k)) <= trMaxBytes
        /\ \A j \in 0..Len(trRunes) : Len(BoundaryPrefix(j)) <= trMaxBytes => j <= k

\* C12: for valid UTF-8 s and maxBytes >= 1, truncateUTF8ToBytes(s, maxBytes)
\* is the longest prefix of s of at most maxBytes bytes that ends on a
\* code-point boundary.
C12_CodePointSafe ==
    (trPc = "ret" /\ trMaxBytes >= 1) => trRet = BoundaryPrefix(LongestFit)

\* C12 witness: U+4F60 followed by "a" under 3 bytes gives U+4F60 alone...
C12_Witness ==
    /\ trPc = "ret" /\ trS = <<228, 189, 160, 97>> /\ trMaxBytes = 3
    /\ trRet = <<228, 189, 160>>

\* ... and under 1 byte the empty string: the cut fell inside a code point.
C12_WitnessSplit ==
    /\ trPc = "ret" /\ trS = <<228, 189, 160, 97>> /\ trMaxBytes = 1
    /\ trRet = <<>>

----
\* ======================= internal/cache: overlapping writes ==============
\* Several calls of (c *Cache) write for one path, step by step, next to one
\* call of tryRead.  Every writer uses the temp-file name path+".tmp".  A file
\* is an inode holding a sequence of cells, one for each write call that
\* built it: the 16-byte header, the 10 bytes gzip.Writer puts in front of
\* its stream, the pieces of deflate data as the compressor hands them
\* down, the 8-byte trailer.  A cell names the writer whose bytes it holds
\* and the place of the bytes in that writer's entry; a hole left by a
\* write past the end is a cell of zeros.  Each writer writes through its
\* own descriptor and offset, and nothing but os.Create shortens a file.

MaxWriters == 2

Writers == 1..MaxWriters

\* Inode numbers: 0 for "no file", w for the file writer w created, and
\* PrevInode for the entry an earlier run left.
NoInode == 0
PrevInode == MaxWriters + 1

CellNone == 0
CellZero == 0 - 1
CellPrev == PrevInode

\* Whose entries the cells come from: the writers and the earlier run.
Owners == Writers \cup {CellPrev}

Cell(w, k) == [w |-> w, k |-> k]
NoCell == Cell(CellNone, 0)
ZeroCell == Cell(CellZero, 0)

\* The header of owner w's entry: mtime and size as w's caller saw them.
HeaderCell(w) == Cell(w, 0)

\* The gzip header: gzip.NewWriter sets no name, comment or time, so the
\* 10 bytes are the same for every writer.
GzipHeader == Cell(CellNone, 1)

\* The number of write calls that carry the deflate data of owner w's text;
\* the texts differ in length.
DataLen(w) == 1 + (w % 2)

\* What zw.Write and zw.Close of owner w write, call by call: the gzip
\* header, the deflate data, the trailer (CRC-32 and length of w's text).
StreamOf(w) ==
    <<GzipHeader>> \o [k \in 1..DataLen(w) |-> Cell(w, k)] \o <<Cell(w, DataLen(w) + 1)>>

\* The complete entry of owner w.
EntryOf(w) == <<HeaderCell(w)>> \o StreamOf(w)

EmptyFile == <<>>
PrevFile == EntryOf(CellPrev)

\* A descriptor: the inode it is open on and its offset, in cells.
NoFd == [ino |-> NoInode, off |-> 0]

\* A write call of cell c at offset o on a file: the cell there is replaced,
\* the file grows when o is its length, and a write past the end leaves a
\* hole of zeros in between.
WriteAt(file, o, c) ==
    [k \in 1..Max(Len(file), o + 1) |->
        IF k = o + 1 THEN c ELSE IF k <= Len(file) THEN file[k] ELSE ZeroCell]

\* p is the front of s.
IsPrefix(p, s) == Len(p) <= Len(s) /\ SubSeq(s, 1, Len(p)) = p

\* The descriptors open on inode i, other than writer w's.
OtherHandles(w, i) == {v \in Writers \ {w} : cwFd[v].ino = i} \cup
                      (IF cwRd.pc \in {"hdr", "payload"} /\ cwRd.fd = i THEN {0} ELSE {})

\* os.Create(tmp): opens path+".tmp" with O_CREATE|O_TRUNC.  An existing temp
\* file, another writer's, is cut to length 0 and shared; ok = FALSE is a
\* failure (write returns before its defer is set up).
WriteCreate(w) ==
    /\ cwPc[w] = "create"
    /\ \E ok \in BOOLEAN :
         IF ~ok
         THEN /\ cwPc' = [cwPc EXCEPT ![w] = "done"]
              /\ UNCHANGED <<cwFd, cwFiles, cwTmp>>
         ELSE /\ cwPc' = [cwPc EXCEPT ![w] = "hdr"]
              /\ IF cwTmp # NoInode
                 THEN /\ cwFd' = [cwFd EXCEPT ![w] = [ino |-> cwTmp, off |-> 0]]
                      /\ cwFiles' = [cwFiles EXCEPT ![cwTmp] = EmptyFile]
                      /\ UNCHANGED cwTmp
                 ELSE /\ cwFd' = [cwFd EXCEPT ![w] = [ino |-> w, off |-> 0]]
                      /\ cwFiles' = [cwFiles EXCEPT ![w] = EmptyFile]
                      /\ cwTmp' = w
    /\ UNCHANGED <<cwFinal, cwRd>>
    /\ UNCHANGED cwRest

\* f.Write(hdr): 16 bytes at offset 0; on an error the deferred calls run.
WriteHeader(w) ==
    /\ cwPc[w] = "hdr"
    /\ \E ok \in BOOLEAN :
         IF ok
         THEN /\ cwFiles' = [cwFiles EXCEPT ![cwFd[w].ino] =
                                WriteAt(@, cwFd[w].off, HeaderCell(w))]
              /\ cwFd' = [cwFd EXCEPT ![w].off = @ + 1]
              /\ cwPc' = [cwPc EXCEPT ![w] = "payload"]
         ELSE /\ cwPc' = [cwPc EXCEPT ![w] = "cleanup"]
              /\ UNCHANGED <<cwFiles, cwFd>>
    /\ UNCHANGED <<cwTmp, cwFinal, cwRd>>
    /\ UNCHANGED cwRest

\* One write call of zw.Write or zw.Close on f: the next cell of the gzip
\* stream at the offset of the descriptor.  After the trailer zw.Close
\* returns nil; after a failed call gzip.Writer writes no more and write
\* returns the error.
WritePayload(w) ==
    /\ cwPc[w] = "payload"
    /\ \E ok \in BOOLEAN :
         IF ok
         THEN /\ cwFiles' = [cwFiles EXCEPT ![cwFd[w].ino] =
                                WriteAt(@, cwFd[w].off, EntryOf(w)[cwFd[w].off + 1])]
              /\ cwFd' = [cwFd EXCEPT ![w].off = @ + 1]
              /\ cwPc' = [cwPc EXCEPT ![w] =
                             IF cwFd[w].off + 1 = Len(EntryOf(w)) THEN "close" ELSE "payload"]
         ELSE /\ cwPc' = [cwPc EXCEPT ![w] = "cleanup"]
              /\ UNCHANGED <<cwFiles, cwFd>>
    /\ UNCHANGED <<cwTmp, cwFinal, cwRd>>
    /\ UNCHANGED cwRest

\* f.Close()
WriteClose(w) ==
    /\ cwPc[w] = "close"
    /\ cwFd' = [cwFd EXCEPT ![w] = NoFd]
    /\ \E ok \in BOOLEAN : cwPc' = [cwPc EXCEPT ![w] = IF ok THEN "rename" ELSE "cleanup"]
    /\ UNCHANGED <<cwFiles, cwTmp, cwFinal, cwRd>>
    /\ UNCHANGED cwRest

\* os.Rename(tmp, path): whatever file path+".tmp" names now takes the final
\* name.  It fails if the temp file is gone; it may fail while another
\* descriptor is open on the temp file or on the entry (a sharing violation
\* on Windows), and succeeds regardless of them elsewhere.
WriteRename(w) ==
    /\ cwPc[w] = "rename"
    /\ cwPc' = [cwPc EXCEPT ![w] = "cleanup"]
    /\ \E ok \in BOOLEAN :
         /\ ok => cwTmp # NoInode
         /\ ~ok => \/ cwTmp = NoInode
                    \/ OtherHandles(w, cwTmp) # {}
                    \/ (cwFinal # NoInode /\ OtherHandles(w, cwFinal) # {})
         /\ IF ok THEN cwFinal' = cwTmp /\ cwTmp' = NoInode
            ELSE UNCHANGED <<cwFinal, cwTmp>>
    /\ UNCHANGED <<cwFd, cwFiles, cwRd>>
    /\ UNCHANGED cwRest

\* The deferred f.Close() and os.Remove(tmp): the name path+".tmp" is removed
\* whoever created the file it names now; the removal may fail while another
\* descriptor is open on that file.
WriteCleanup(w) ==
    /\ cwPc[w] = "cleanup"
    /\ cwPc' = [cwPc EXCEPT ![w] = "done"]
    /\ cwFd' = [cwFd EXCEPT ![w] = NoFd]
    /\ \E ok \in BOOLEAN :
         /\ ok => cwTmp # NoInode
         /\ ~ok => (cwTmp = NoInode \/ OtherHandles(w, cwTmp) # {})
         /\ cwTmp' = IF ok THEN NoInode ELSE cwTmp
    /\ UNCHANGED <<cwFiles, cwFinal, cwRd>>
    /\ UNCHANGED cwRest

\* tryRead: os.Open(path).
ReadOpen ==
    /\ cwRd.pc = "open"
    /\ cwRd' = IF cwFinal = NoInode
               THEN [cwRd EXCEPT !.pc = "done"]
               ELSE [cwRd EXCEPT !.pc = "hdr", !.fd = cwFinal]
    /\ UNCHANGED <<cwPc, cwFd, cwFiles, cwTmp, cwFinal>>
    /\ UNCHANGED cwRest

\* tryRead: io.ReadFull(f, hdr), which fails on a file shorter than 16
\* bytes, and the comparison of the two words of the header with the
\* caller's size and mtime: on a difference tryRead returns ("", false)
\* and the payload is not read.
ReadHeader ==
    /\ cwRd.pc = "hdr"
    /\ LET file == cwFiles[cwRd.fd] IN
       cwRd' = IF file = EmptyFile THEN [cwRd EXCEPT !.pc = "done"]
               ELSE [cwRd EXCEPT !.hdr = file[1], !.off = 1,
                                 !.pc = IF file[1].w \in cwRd.match THEN "payload"
                                        ELSE "done"]
    /\ UNCHANGED <<cwPc, cwFd, cwFiles, cwTmp, cwFinal>>
    /\ UNCHANGED cwRest

\* tryRead: one read call that gzip.NewReader or io.ReadAll makes on f
\* through the buffer of the gzip reader.  It delivers bytes that follow
\* the offset, as many as the buffer takes, or the end of the file.  The
\* stream read so far is sound while it is the front of one owner's stream;
\* bytes behind a trailer are not a gzip header, and the end of the file
\* inside a stream is an error.  After the trailer the gzip reader looks
\* for a further member: tryRead returns the text when that read call finds
\* the end of the file.  (The texts are within the byte budget.)
ReadPayload ==
    /\ cwRd.pc = "payload"
    /\ LET file == cwFiles[cwRd.fd]
           avail == Len(file) - cwRd.off
       IN IF avail <= 0
          THEN cwRd' = [cwRd EXCEPT !.pc = "done",
                                    !.res = IF \E v \in Owners : cwRd.pay = StreamOf(v)
                                            THEN "hit" ELSE "miss"]
          ELSE \E n \in 1..avail :
               \E pay \in {cwRd.pay \o SubSeq(file, cwRd.off + 1, cwRd.off + n)} :
                 IF \E v \in Owners : IsPrefix(pay, StreamOf(v))
                 THEN cwRd' = [cwRd EXCEPT !.pay = pay, !.off = @ + n]
                 ELSE cwRd' = [cwRd EXCEPT !.pay = pay, !.off = @ + n,
                                           !.pc = "done", !.res = "miss"]
    /\ UNCHANGED <<cwPc, cwFd, cwFiles, cwTmp, cwFinal>>
    /\ UNCHANGED cwRest

\* ======================= harness of the overlapping writes ===============

\* A call of tryRead before os.Open.  match holds the owners of the header
\* cells whose two words equal the size and mtime the caller passes: the
\* writers that saw the file as the caller does, the entry of the earlier
\* run when the file has not changed since, and a hole of zeros for a file
\* of size 0 with mtime 0.  pay is what the gzip reader has read, res the
\* result of the payload read.
NoRead == [pc |-> "open", fd |-> NoInode, off |-> 0, hdr |-> NoCell, pay |-> <<>>,
           res |-> "none", match |-> {}]

\* The writers are about to create their temp file; the entry is absent or
\* the complete entry of an earlier run.
CwInit ==
    /\ cwPc = [w \in Writers |-> "create"]
    /\ cwFd = [w \in Writers |-> NoFd]
    /\ cwFiles = [i \in 1..PrevInode |-> IF i = PrevInode THEN PrevFile ELSE EmptyFile]
    /\ cwTmp = NoInode
    /\ cwFinal \in {NoInode, PrevInode}
    /\ \E m \in SUBSET (Writers \cup {CellPrev, CellZero}) : cwRd = [NoRead EXCEPT !.match = m]

CwNext ==
    \/ \E w \in Writers : WriteCreate(w)
    \/ \E w \in Writers : WriteHeader(w)
    \/ \E w \in Writers : WritePayload(w)
    \/ \E w \in Writers : WriteClose(w)
    \/ \E w \in Writers : WriteRename(w)
    \/ \E w \in Writers : WriteCleanup(w)
    \/ ReadOpen
    \/ ReadHeader
    \/ ReadPayload

CwIdle ==
    /\ cwPc = <<>> /\ cwFd = <<>> /\ cwFiles = <<>> /\ cwTmp = NoInode
    /\ cwFinal = NoInode /\ cwRd = [NoRead EXCEPT !.pc = "idle"]

\* ======================= claims on the overlapping writes ================

\* What the reader has read is of a complete entry: the header of a writer
\* or of the earlier run and, when the header was the caller's and the
\* payload was read, the whole stream that belongs to it and nothing else.
ReadComplete ==
    /\ cwRd.hdr.k = 0 /\ cwRd.hdr.w \in Owners
    /\ cwRd.hdr.w \in cwRd.match
          => cwRd.res = "hit" /\ cwRd.pay = StreamOf(cwRd.hdr.w)

\* C15 (as stated): a tryRead that runs next to one or more writers of the
\* same entry finds at the final path no entry, the previous complete entry
\* or a new complete entry, never a file that is still written to or that
\* mixes the data of two writers.
C15_AtomicReplace ==
    (cwRd.pc = "done" /\ cwRd.fd # NoInode)
    => /\ ReadComplete
       /\ \A w \in Writers : cwFd[w].ino # cwRd.fd

----
\* ======================= internal/extract: the PDF parse limiter =========
\* The pure-Go PDF functions (pdfFindFirst, pdfFindSnippetsStream, the full
\* extraction) go through pdfOpenWithLimit, which takes a token from the
\* package-wide channel pdfSemaphore, and give it back with releasePDFSlot.

\* Default and ceiling of OFIND_PDF_CONCURRENT_LIMIT.
PdfLimitDefault == 2
PdfLimitCeiling == 10

\* Goroutines that parse PDF files: pipeline workers of any query.
MaxPdfWorkers == 3
PdfWorkers == 1..MaxPdfWorkers

\* pdfConcurrentLimitValue(): env is the variable OFIND_PDF_CONCURRENT_LIMIT,
\* set or not, a number (strconv.Atoi succeeds) or not.
pdfConcurrentLimitValue(env) ==
    IF ~env.set THEN PdfLimitDefault
    ELSE IF env.num /\ env.n > 0 THEN Min(env.n, PdfLimitCeiling)
    ELSE PdfLimitDefault

\* A mutant of semReady: a token is taken whether or not one is there.
semReady_Always(sem) == TRUE

\* The case <-sem of acquirePDFSlot can proceed: the channel holds a token.
semReady(sem) == sem > 0

\* A worker calls a PDF function and reaches pdfOpenWithLimit.
PdfCall(w) ==
    /\ pdPc[w] = "idle"
    /\ pdPc' = [pdPc EXCEPT ![w] = "acquire"]
    /\ pdRes' = [pdRes EXCEPT ![w] = "none"]
    /\ UNCHANGED <<pdEnv, pdLimit, pdSem, pdActive, pdMem>>
    /\ UNCHANGED pdRest

\* A mutant of graceOutcome: after the wait the memory is not tested again.
graceOutcome_Retry(memHigh) == "sem"

\* acquirePDFSlot after <-time.After(100 * time.Millisecond): the error when
\* isMemoryHigh() is still true, the semaphore otherwise.
graceOutcome(memHigh) == IF memHigh THEN "fail" ELSE "sem"

\* acquirePDFSlot on entry: if isMemoryHigh() the select of the grace wait,
\* the semaphore otherwise.
AcquireEntry(w) ==
    /\ pdPc[w] = "acquire"
    /\ pdPc' = [pdPc EXCEPT ![w] = IF pdMem THEN "grace" ELSE "sem"]
    /\ UNCHANGED <<pdEnv, pdLimit, pdSem, pdActive, pdRes, pdMem>>
    /\ UNCHANGED pdRest

\* acquirePDFSlot in the select of the grace wait: <-ctx.Done(), when the
\* caller's ctx is cancelled by then, returns ctx.Err(); <-time.After tests
\* the memory again.
AcquireGrace(w) ==
    /\ pdPc[w] = "grace"
    /\ \/ /\ pdPc' = [pdPc EXCEPT ![w] = "idle"]
          /\ pdRes' = [pdRes EXCEPT ![w] = "ctx"]
       \/ IF graceOutcome(pdMem) = "fail"
          THEN /\ pdPc' = [pdPc EXCEPT ![w] = "idle"]
               /\ pdRes' = [pdRes EXCEPT ![w] = "mem"]
          ELSE /\ pdPc' = [pdPc EXCEPT ![w] = "sem"]
               /\ UNCHANGED pdRes
    /\ UNCHANGED <<pdEnv, pdLimit, pdSem, pdActive, pdMem>>
    /\ UNCHANGED pdRest

\* acquirePDFSlot in the select on the semaphore: case <-ctx.Done(), when
\* the caller's ctx is cancelled by then, returns ctx.Err().  No token is
\* taken.
AcquireFail(w) ==
    /\ pdPc[w] = "sem"
    /\ pdPc' = [pdPc EXCEPT ![w] = "idle"]
    /\ pdRes' = [pdRes EXCEPT ![w] = "ctx"]
    /\ UNCHANGED <<pdEnv, pdLimit, pdSem, pdActive, pdMem>>
    /\ UNCHANGED pdRest

\* acquirePDFSlot: case <-sem.
AcquireToken(w) ==
    /\ pdPc[w] = "sem"
    /\ semReady(pdSem)
    /\ pdSem' = pdSem - 1
    /\ pdPc' = [pdPc EXCEPT ![w] = "count"]
    /\ UNCHANGED <<pdEnv, pdLimit, pdActive, pdRes>>
    /\ UNCHANGED pdMem
    /\ UNCHANGED pdRest

\* acquirePDFSlot: atomic.AddInt32(&activePDFTasks, 1); return nil.
AcquireCount(w) ==
    /\ pdPc[w] = "count"
    /\ pdActive' = pdActive + 1
    /\ pdPc' = [pdPc EXCEPT ![w] = "open"]
    /\ UNCHANGED <<pdEnv, pdLimit, pdSem, pdRes>>
    /\ UNCHANGED pdMem
    /\ UNCHANGED pdRest

\* A mutant of afterOpen: a failed pdfOpen returns without releasePDFSlot.
afterOpen_Leak(ok) == IF ok THEN "parse" ELSE "idle"

\* pdfOpenWithLimit after pdfOpen: the caller parses under the permit, or
\* releasePDFSlot() is called before the error is returned.
afterOpen(ok) == IF ok THEN "parse" ELSE "uncount"

\* pdfOpenWithLimit: pdfOpen(path) succeeds and the caller parses, or fails
\* and the slot is released at once.
PdfOpen(w) ==
    /\ pdPc[w] = "open"
    /\ \E ok \in BOOLEAN :
         /\ pdPc' = [pdPc EXCEPT ![w] = afterOpen(ok)]
         /\ pdRes' = [pdRes EXCEPT ![w] = IF ok THEN "none" ELSE "err"]
    /\ UNCHANGED <<pdEnv, pdLimit, pdSem, pdActive>>
    /\ UNCHANGED pdMem
    /\ UNCHANGED pdRest

\* The PDF function returns (found, not found, error, cancelled): its
\* deferred releasePDFSlotOnClose()() runs.
PdfReturn(w) ==
    /\ pdPc[w] = "parse"
    /\ pdPc' = [pdPc EXCEPT ![w] = "uncount"]
    /\ pdRes' = [pdRes EXCEPT ![w] = "ok"]
    /\ UNCHANGED <<pdEnv, pdLimit, pdSem, pdActive>>
    /\ UNCHANGED pdMem
    /\ UNCHANGED pdRest

\* releasePDFSlot: atomic.AddInt32(&activePDFTasks, -1).
ReleaseCount(w) ==
    /\ pdPc[w] = "uncount"
    /\ pdActive' = pdActive - 1
    /\ pdPc' = [pdPc EXCEPT ![w] = "release"]
    /\ UNCHANGED <<pdEnv, pdLimit, pdSem, pdRes>>
    /\ UNCHANGED pdMem
    /\ UNCHANGED pdRest

\* releasePDFSlot: getPDFSemaphore() <- struct{}{}; the send waits while the
\* channel is full.
ReleaseToken(w) ==
    /\ pdPc[w] = "release"
    /\ pdSem < pdLimit
    /\ pdSem' = pdSem + 1
    /\ pdPc' = [pdPc EXCEPT ![w] = "idle"]
    /\ UNCHANGED <<pdEnv, pdLimit, pdActive, pdRes>>
    /\ UNCHANGED pdMem
    /\ UNCHANGED pdRest

\* The memory in use crosses pdfMemoryLimitValue(), either way.
MemChange ==
    /\ pdMem' = ~pdMem
    /\ UNCHANGED <<pdEnv, pdLimit, pdSem, pdActive, pdPc, pdRes>>
    /\ UNCHANGED pdRest

\* ======================= harness of the PDF parse limiter ================

\* OFIND_PDF_CONCURRENT_LIMIT: unset, not a number, "0", "1", "11".
PdfEnvValues ==
    {[set |-> FALSE, num |-> FALSE, n |-> 0],
     [set |-> TRUE, num |-> FALSE, n |-> 0],
     [set |-> TRUE, num |-> TRUE, n |-> 0],
     [set |-> TRUE, num |-> TRUE, n |-> 1],
     [set |-> TRUE, num |-> TRUE, n |-> PdfLimitCeiling + 1]}

\* After pdfSemaphoreOnce: the channel holds pdfConcurrentLimitValue() tokens.
PdInit ==
    /\ pdEnv \in PdfEnvValues
    /\ pdLimit = pdfConcurrentLimitValue(pdEnv)
    /\ pdSem = pdLimit
    /\ pdActive = 0
    /\ pdPc = [w \in PdfWorkers |-> "idle"]
    /\ pdRes = [w \in PdfWorkers |-> "none"]
    /\ pdMem = FALSE

PdNext ==
    \/ \E w \in PdfWorkers : PdfCall(w)
    \/ \E w \in PdfWorkers : AcquireEntry(w)
    \/ \E w \in PdfWorkers : AcquireGrace(w)
    \/ \E w \in PdfWorkers : AcquireFail(w)
    \/ \E w \in PdfWorkers : AcquireToken(w)
    \/ \E w \in PdfWorkers : AcquireCount(w)
    \/ \E w \in PdfWorkers : PdfOpen(w)
    \/ \E w \in PdfWorkers : PdfReturn(w)
    \/ \E w \in PdfWorkers : ReleaseCount(w)
    \/ \E w \in PdfWorkers : ReleaseToken(w)
    \/ MemChange

PdIdle ==
    /\ pdEnv = [set |-> FALSE, num |-> FALSE, n |-> 0] /\ pdLimit = 0 /\ pdSem = 0
    /\ pdActive = 0 /\ pdPc = <<>> /\ pdRes = <<>> /\ pdMem = FALSE

\* ======================= claims on the PDF parse limiter =================

\* The workers between a successful acquirePDFSlot (the token is taken) and
\* the end of the matching releasePDFSlot (the token is back).
PdfInProgress == {w \in PdfWorkers : pdPc[w] \in {"count", "open", "parse", "uncount", "release"}}

\* C17: at most limit parses are in progress, the limit being 2 by default
\* and never more than 10; activePDFTasks stays within it as well.
C17_ConcurrencyLimit ==
    /\ Cardinality(PdfInProgress) <= pdLimit
    /\ pdActive <= pdLimit
    /\ pdLimit \in 1..PdfLimitCeiling
    /\ (~pdEnv.set) => pdLimit = PdfLimitDefault

\* C17 witness: under the default limit two workers parse and a third one
\* waits for a token.
C17_Witness ==
    /\ ~pdEnv.set /\ pdLimit = 2 /\ pdSem = 0
    /\ Cardinality({w \in PdfWorkers : pdPc[w] = "parse"}) = 2
    /\ \E w \in PdfWorkers : pdPc[w] = "sem"

\* The workers inside acquirePDFSlot or releasePDFSlot between the channel
\* operation and the update of activePDFTasks.
PdfBetween == {w \in PdfWorkers : pdPc[w] \in {"count", "release"}}

\* C35 (as stated): in every reachable state the free permits and
\* activePDFTasks add up to the configured limit.
C35_ConservationAsStated == pdSem + pdActive = pdLimit

\* C35 (amended): the free permits and the calls that hold one add up to the
\* limit in every state, so that no permit leaks and none is given back
\* twice; activePDFTasks is short of that by the calls that are between the
\* channel operation and the counter update; the send of releasePDFSlot
\* finds room in the channel; with no call in progress all permits are free.
C35_Conservation ==
    /\ pdSem \in 0..pdLimit
    /\ pdSem + Cardinality(PdfInProgress) = pdLimit
    /\ pdSem + pdActive = pdLimit - Cardinality(PdfBetween)
    /\ \A w \in PdfWorkers : pdPc[w] = "release" => pdSem < pdLimit
    /\ (PdfInProgress = {}) => (pdSem = pdLimit /\ pdActive = 0)

\* C35 witness: a call whose pdfOpen failed is inside releasePDFSlot, the
\* counter already lowered and the permit not yet back, while another call
\* parses under its permit.
C35_Witness ==
    /\ \E w \in PdfWorkers : pdPc[w] = "release" /\ pdRes[w] = "err"
    /\ \E w \in PdfWorkers : pdPc[w] = "parse"
    /\ pdSem + pdActive = pdLimit - 1

\* C35 witness: every call has returned, by a failed open and by a parse,
\* and the permits are all free again.
C35_WitnessAllBack ==
    /\ PdfInProgress = {} /\ pdSem = pdLimit
    /\ \E w \in PdfWorkers : pdRes[w] = "err"
    /\ \E w \in PdfWorkers : pdRes[w] = "ok"

\* Worker w returns from acquirePDFSlot with an error in this step.
AcquireErr(w) == pdPc[w] \in {"grace", "sem"} /\ pdPc'[w] = "idle"

\* C36: a call that finds the memory high on entry goes into the grace wait,
\* and when the wait is over with the memory still high it returns the
\* memory error; every return of acquirePDFSlot with an error (memory, or
\* ctx cancelled in either select) leaves the free permits and
\* activePDFTasks as they were, and the caller is not among the holders.
C36_FailFast ==
    /\ [][\A w \in PdfWorkers :
            /\ (pdPc[w] = "acquire" /\ pdMem /\ pdPc'[w] # "acquire") => pdPc'[w] = "grace"
            /\ (pdPc[w] = "grace" /\ pdMem /\ pdPc'[w] # "grace")
                 => /\ pdPc'[w] = "idle"
                    /\ pdRes'[w] \in {"mem", "ctx"}
            /\ AcquireErr(w)
                 => /\ pdRes'[w] \in {"mem", "ctx"}
                    /\ pdSem' = pdSem /\ pdActive' = pdActive
                    /\ w \notin PdfInProgress']_vars
    /\ [](\A w \in PdfWorkers :
            (pdPc[w] = "idle" /\ pdRes[w] \in {"mem", "ctx"}) => w \notin PdfInProgress)
    /\ [](pdSem + Cardinality(PdfInProgress) = pdLimit)

\* C36 witness: a call has returned the memory error while a permit is free
\* and another call parses.
C36_Witness ==
    /\ \E w \in PdfWorkers : pdPc[w] = "idle" /\ pdRes[w] = "mem"
    /\ \E w \in PdfWorkers : pdPc[w] = "parse"
    /\ pdSem > 0 /\ pdSem + Cardinality(PdfInProgress) = pdLimit

\* C36 witness: a call that waited for a permit with none free has returned
\* on its cancelled ctx.
C36_WitnessCancelled ==
    /\ \E w \in PdfWorkers : pdPc[w] = "idle" /\ pdRes[w] = "ctx"
    /\ pdSem = 0 /\ Cardinality(PdfInProgress) = pdLimit

----
\* ======================= internal/app: the search daemon =================
\* RunDaemon reads commands from stdin, one per line; startSearch cancels the
\* run in progress and starts a new one: a crawl goroutine, the worker
\* goroutines, a goroutine that emits done, and a memory monitor.

\* The per-worker share of the jobs channel.
JobsPerWorker == 1

\* The number of workers of a run when opts.Workers gives none and
\* runtime.NumCPU() gives none either, and the most taken from NumCPU():
\* on a 386 build, and on any build.
DefaultWorkers == 4
WorkersCap386 == 2
WorkersCap == 4

\* maxSnips when the command gives none, and the ceiling of maxTotal.
DefaultMaxSnips == 3
MaxTotalCap == 12

\* Lines of stdin that are read.
MaxLines == 2

\* strings.ToLower, letter by letter (unicode.ToLower): the code points that
\* have a lower case in the case tables of the Go 1.20 library (Unicode
\* 13.0), each with its lower case.  A code point outside ASCII is written
\* by its number.  U+0130 goes to "i", U+212A to "k", U+212B to U+00E5.
UpperLetters ==
    <<"A", "B", "C", "D", "E", "F", "G", "H", "I", "J", "K", "L", "M", "N",
      "O", "P", "Q", "R", "S", "T", "U", "V", "W", "X", "Y", "Z", "U+00C0",
      "U+00C1", "U+00C2", "U+00C3", "U+00C4", "U+00C5", "U+00C6", "U+00C7",
      "U+00C8", "U+00C9", "U+00CA", "U+00CB", "U+00CC", "U+00CD", "U+00CE",
      "U+00CF", "U+00D0", "U+00D1", "U+00D2", "U+00D3", "U+00D4", "U+00D5",
      "U+00D6", "U+00D8", "U+00D9", "U+00DA", "U+00DB", "U+00DC", "U+00DD",
      "U+00DE", "U+0100", "U+0102", "U+0104", "U+0106", "U+0108", "U+010A",
      "U+010C", "U+010E", "U+0110", "U+0112", "U+0114", "U+0116", "U+0118",
      "U+011A", "U+011C", "U+011E", "U+0120", "U+0122", "U+0124", "U+0126",
      "U+0128", "U+012A", "U+012C", "U+012E", "U+0130", "U+0132", "U+0134",
      "U+0136", "U+0139", "U+013B", "U+013D", "U+013F", "U+0141", "U+0143",
      "U+0145", "U+0147", "U+014A", "U+014C", "U+014E", "U+0150", "U+0152",
      "U+0154", "U+0156", "U+0158", "U+015A", "U+015C", "U+015E", "U+0160",
      "U+0162", "U+0164", "U+0166", "U+0168", "U+016A", "U+016C", "U+016E",
      "U+0170", "U+0172", "U+0174", "U+0176", "U+0178", "U+0179", "U+017B",
      "U+017D", "U+0181", "U+0182", "U+0184", "U+0186", "U+0187", "U+0189",
      "U+018A", "U+018B", "U+018E", "U+018F", "U+0190", "U+0191", "U+0193",
      "U+0194", "U+0196", "U+0197", "U+0198", "U+019C", "U+019D", "U+019F",
      "U+01A0", "U+01A2", "U+01A4", "U+01A6", "U+01A7", "U+01A9", "U+01AC",
      "U+01AE", "U+01AF", "U+01B1", "U+01B2", "U+01B3", "U+01B5", "U+01B7",
      "U+01B8", "U+01BC", "U+01C4", "U+01C5", "U+01C7", "U+01C8", "U+01CA",
      "U+01CB", "U+01CD", "U+01CF", "U+01D1", "U+01D3", "U+01D5", "U+01D7",
      "U+01D9", "U+01DB", "U+01DE", "U+01E0", "U+01E2", "U+01E4", "U+01E6",
      "U+01E8", "U+01EA", "U+01EC", "U+01EE", "U+01F1", "U+01F2", "U+01F4",
      "U+01F6", "U+01F7", "U+01F8", "U+01FA", "U+01FC", "U+01FE", "U+0200",
      "U+0202", "U+0204", "U+0206", "U+0208", "U+020A", "U+020C", "U+020E",
      "U+0210", "U+0212", "U+0214", "U+0216", "U+0218", "U+021A", "U+021C",
      "U+021E", "U+0220", "U+0222", "U+0224", "U+0226", "U+0228", "U+022A",
      "U+022C", "U+022E", "U+0230", "U+0232", "U+023A", "U+023B", "U+023D",
      "U+023E", "U+0241", "U+0243", "U+0244", "U+0245", "U+0246", "U+0248",
      "U+024A", "U+024C", "U+024E", "U+0370", "U+0372", "U+0376", "U+037F",
      "U+0386", "U+0388", "U+0389", "U+038A", "U+038C", "U+038E", "U+038F",
      "U+0391", "U+0392", "U+0393", "U+0394", "U+0395", "U+0396", "U+0397",
      "U+0398", "U+0399", "U+039A", "U+039B", "U+039C", "U+039D", "U+039E",
      "U+039F", "U+03A0", "U+03A1", "U+03A3", "U+03A4", "U+03A5", "U+03A6",
      "U+03A7", "U+03A8", "U+03A9", "U+03AA", "U+03AB", "U+03CF", "U+03D8",
      "U+03DA", "U+03DC", "U+03DE", "U+03E0", "U+03E2", "U+03E4", "U+03E6",
      "U+03E8", "U+03EA", "U+03EC", "U+03EE", "U+03F4", "U+03F7", "U+03F9",
      "U+03FA", "U+03FD", "U+03FE", "U+03FF", "U+0400", "U+0401", "U+0402",
      "U+0403", "U+0404", "U+0405", "U+0406", "U+0407", "U+0408", "U+0409",
      "U+040A", "U+040B", "U+040C", "U+040D", "U+040E", "U+040F", "U+0410",
      "U+0411", "U+0412", "U+0413", "U+0414", "U+0415", "U+0416", "U+0417",
      "U+0418", "U+0419", "U+041A", "U+041B", "U+041C", "U+041D", "U+041E",
      "U+041F", "U+0420", "U+0421", "U+0422", "U+0423", "U+0424", "U+0425",
      "U+0426", "U+0427", "U+0428", "U+0429", "U+042A", "U+042B", "U+042C",
      "U+042D", "U+042E", "U+042F", "U+0460", "U+0462", "U+0464", "U+0466",
      "U+0468", "U+046A", "U+046C", "U+046E", "U+0470", "U+0472", "U+0474",
      "U+0476", "U+0478", "U+047A", "U+047C", "U+047E", "U+0480", "U+048A",
      "U+048C", "U+048E", "U+0490", "U+0492", "U+0494", "U+0496", "U+0498",
      "U+049A", "U+049C", "U+049E", "U+04A0", "U+04A2", "U+04A4", "U+04A6",
      "U+04A8", "U+04AA", "U+04AC", "U+04AE", "U+04B0", "U+04B2", "U+04B4",
      "U+04B6", "U+04B8", "U+04BA", "U+04BC", "U+04BE", "U+04C0", "U+04C1",
      "U+04C3", "U+04C5", "U+04C7", "U+04C9", "U+04CB", "U+04CD", "U+04D0",
      "U+04D2", "U+04D4", "U+04D6", "U+04D8", "U+04DA", "U+04DC", "U+04DE",
      "U+04E0", "U+04E2", "U+04E4", "U+04E6", "U+04E8", "U+04EA", "U+04EC",
      "U+04EE", "U+04F0", "U+04F2", "U+04F4", "U+04F6", "U+04F8", "U+04FA",
      "U+04FC", "U+04FE", "U+0500", "U+0502", "U+0504", "U+0506", "U+0508",
      "U+050A", "U+050C", "U+050E", "U+0510", "U+0512", "U+0514", "U+0516",
      "U+0518", "U+051A", "U+051C", "U+051E", "U+0520", "U+0522", "U+0524",
      "U+0526", "U+0528", "U+052A", "U+052C", "U+052E", "U+0531", "U+0532",
      "U+0533", "U+0534", "U+0535", "U+0536", "U+0537", "U+0538", "U+0539",
      "U+053A", "U+053B", "U+053C", "U+053D", "U+053E", "U+053F", "U+0540",
      "U+0541", "U+0542", "U+0543", "U+0544", "U+0545", "U+0546", "U+0547",
      "U+0548", "U+0549", "U+054A", "U+054B", "U+054C", "U+054D", "U+054E",
      "U+054F", "U+0550", "U+0551", "U+0552", "U+0553", "U+0554", "U+0555",
      "U+0556", "U+10A0", "U+10A1", "U+10A2", "U+10A3", "U+10A4", "U+10A5",
      "U+10A6", "U+10A7", "U+10A8", "U+10A9", "U+10AA", "U+10AB", "U+10AC",
      "U+10AD", "U+10AE", "U+10AF", "U+10B0", "U+10B1", "U+10B2", "U+10B3",
      "U+10B4", "U+10B5", "U+10B6", "U+10B7", "U+10B8", "U+10B9", "U+10BA",
      "U+10BB", "U+10BC", "U+10BD", "U+10BE", "U+10BF", "U+10C0", "U+10C1",
      "U+10C2", "U+10C3", "U+10C4", "U+10C5", "U+10C7", "U+10CD", "U+13A0",
      "U+13A1", "U+13A2", "U+13A3", "U+13A4", "U+13A5", "U+13A6", "U+13A7",
      "U+13A8", "U+13A9", "U+13AA", "U+13AB", "U+13AC", "U+13AD", "U+13AE",
      "U+13AF", "U+13B0", "U+13B1", "U+13B2", "U+13B3", "U+13B4", "U+13B5",
      "U+13B6", "U+13B7", "U+13B8", "U+13B9", "U+13BA", "U+13BB", "U+13BC",
      "U+13BD", "U+13BE", "U+13BF", "U+13C0", "U+13C1", "U+13C2", "U+13C3",
      "U+13C4", "U+13C5", "U+13C6", "U+13C7", "U+13C8", "U+13C9", "U+13CA",
      "U+13CB", "U+13CC", "U+13CD", "U+13CE", "U+13CF", "U+13D0", "U+13D1",
      "U+13D2", "U+13D3", "U+13D4", "U+13D5", "U+13D6", "U+13D7", "U+13D8",
      "U+13D9", "U+13DA", "U+13DB", "U+13DC", "U+13DD", "U+13DE", "U+13DF",
      "U+13E0", "U+13E1", "U+13E2", "U+13E3", "U+13E4", "U+13E5", "U+13E6",
      "U+13E7", "U+13E8", "U+13E9", "U+13EA", "U+13EB", "U+13EC", "U+13ED",
      "U+13EE", "U+13EF", "U+13F0", "U+13F1", "U+13F2", "U+13F3", "U+13F4",
      "U+13F5", "U+1C90", "U+1C91", "U+1C92", "U+1C93", "U+1C94", "U+1C95",
      "U+1C96", "U+1C97", "U+1C98", "U+1C99", "U+1C9A", "U+1C9B", "U+1C9C",
      "U+1C9D", "U+1C9E", "U+1C9F", "U+1CA0", "U+1CA1", "U+1CA2", "U+1CA3",
      "U+1CA4", "U+1CA5", "U+1CA6", "U+1CA7", "U+1CA8", "U+1CA9", "U+1CAA",
      "U+1CAB", "U+1CAC", "U+1CAD", "U+1CAE", "U+1CAF", "U+1CB0", "U+1CB1",
      "U+1CB2", "U+1CB3", "U+1CB4", "U+1CB5", "U+1CB6", "U+1CB7", "U+1CB8",
      "U+1CB9", "U+1CBA", "U+1CBD", "U+1CBE", "U+1CBF", "U+1E00", "U+1E02",
      "U+1E04", "U+1E06", "U+1E08", "U+1E0A", "U+1E0C", "U+1E0E", "U+1E10",
      "U+1E12", "U+1E14", "U+1E16", "U+1E18", "U+1E1A", "U+1E1C", "U+1E1E",
      "U+1E20", "U+1E22", "U+1E24", "U+1E26", "U+1E28", "U+1E2A", "U+1E2C",
      "U+1E2E", "U+1E30", "U+1E32", "U+1E34", "U+1E36", "U+1E38", "U+1E3A",
      "U+1E3C", "U+1E3E", "U+1E40", "U+1E42", "U+1E44", "U+1E46", "U+1E48",
      "U+1E4A", "U+1E4C", "U+1E4E", "U+1E50", "U+1E52", "U+1E54", "U+1E56",
      "U+1E58", "U+1E5A", "U+1E5C", "U+1E5E", "U+1E60", "U+1E62", "U+1E64",
      "U+1E66", "U+1E68", "U+1E6A", "U+1E6C", "U+1E6E", "U+1E70", "U+1E72",
      "U+1E74", "U+1E76", "U+1E78", "U+1E7A", "U+1E7C", "U+1E7E", "U+1E80",
      "U+1E82", "U+1E84", "U+1E86", "U+1E88", "U+1E8A", "U+1E8C", "U+1E8E",
      "U+1E90", "U+1E92", "U+1E94", "U+1E9E", "U+1EA0", "U+1EA2", "U+1EA4",
      "U+1EA6", "U+1EA8", "U+1EAA", "U+1EAC", "U+1EAE", "U+1EB0", "U+1EB2",
      "U+1EB4", "U+1EB6", "U+1EB8", "U+1EBA", "U+1EBC", "U+1EBE", "U+1EC0",
      "U+1EC2", "U+1EC4", "U+1EC6", "U+1EC8", "U+1ECA", "U+1ECC", "U+1ECE",
      "U+1ED0", "U+1ED2", "U+1ED4", "U+1ED6", "U+1ED8", "U+1EDA", "U+1EDC",
      "U+1EDE", "U+1EE0", "U+1EE2", "U+1EE4", "U+1EE6", "U+1EE8", "U+1EEA",
      "U+1EEC", "U+1EEE", "U+1EF0", "U+1EF2", "U+1EF4", "U+1EF6", "U+1EF8",
      "U+1EFA", "U+1EFC", "U+1EFE", "U+1F08", "U+1F09", "U+1F0A", "U+1F0B",
      "U+1F0C", "U+1F0D", "U+1F0E", "U+1F0F", "U+1F18", "U+1F19", "U+1F1A",
      "U+1F1B", "U+1F1C", "U+1F1D", "U+1F28", "U+1F29", "U+1F2A", "U+1F2B",
      "U+1F2C", "U+1F2D", "U+1F2E", "U+1F2F", "U+1F38", "U+1F39", "U+1F3A",
      "U+1F3B", "U+1F3C", "U+1F3D", "U+1F3E", "U+1F3F", "U+1F48", "U+1F49",
      "U+1F4A", "U+1F4B", "U+1F4C", "U+1F4D", "U+1F59", "U+1F5B", "U+1F5D",
      "U+1F5F", "U+1F68", "U+1F69", "U+1F6A", "U+1F6B", "U+1F6C", "U+1F6D",
      "U+1F6E", "U+1F6F", "U+1F88", "U+1F89", "U+1F8A", "U+1F8B", "U+1F8C",
      "U+1F8D", "U+1F8E", "U+1F8F", "U+1F98", "U+1F99", "U+1F9A", "U+1F9B",
      "U+1F9C", "U+1F9D", "U+1F9E", "U+1F9F", "U+1FA8", "U+1FA9", "U+1FAA",
      "U+1FAB", "U+1FAC", "U+1FAD", "U+1FAE", "U+1FAF", "U+1FB8", "U+1FB9",
      "U+1FBA", "U+1FBB", "U+1FBC", "U+1FC8", "U+1FC9", "U+1FCA", "U+1FCB",
      "U+1FCC", "U+1FD8", "U+1FD9", "U+1FDA", "U+1FDB", "U+1FE8", "U+1FE9",
      "U+1FEA", "U+1FEB", "U+1FEC", "U+1FF8", "U+1FF9", "U+1FFA", "U+1FFB",
      "U+1FFC", "U+2126", "U+212A", "U+212B", "U+2132", "U+2160", "U+2161",
      "U+2162", "U+2163", "U+2164", "U+2165", "U+2166", "U+2167", "U+2168",
      "U+2169", "U+216A", "U+216B", "U+216C", "U+216D", "U+216E", "U+216F",
      "U+2183", "U+24B6", "U+24B7", "U+24B8", "U+24B9", "U+24BA", "U+24BB",
      "U+24BC", "U+24BD", "U+24BE", "U+24BF", "U+24C0", "U+24C1", "U+24C2",
      "U+24C3", "U+24C4", "U+24C5", "U+24C6", "U+24C7", "U+24C8", "U+24C9",
      "U+24CA", "U+24CB", "U+24CC", "U+24CD", "U+24CE", "U+24CF", "U+2C00",
      "U+2C01", "U+2C02", "U+2C03", "U+2C04", "U+2C05", "U+2C06", "U+2C07",
      "U+2C08", "U+2C09", "U+2C0A", "U+2C0B", "U+2C0C", "U+2C0D", "U+2C0E",
      "U+2C0F", "U+2C10", "U+2C11", "U+2C12", "U+2C13", "U+2C14", "U+2C15",
      "U+2C16", "U+2C17", "U+2C18", "U+2C19", "U+2C1A", "U+2C1B", "U+2C1C",
      "U+2C1D", "U+2C1E", "U+2C1F", "U+2C20", "U+2C21", "U+2C22", "U+2C23",
      "U+2C24", "U+2C25", "U+2C26", "U+2C27", "U+2C28", "U+2C29", "U+2C2A",
      "U+2C2B", "U+2C2C", "U+2C2D", "U+2C2E", "U+2C60", "U+2C62", "U+2C63",
      "U+2C64", "U+2C67", "U+2C69", "U+2C6B", "U+2C6D", "U+2C6E", "U+2C6F",
      "U+2C70", "U+2C72", "U+2C75", "U+2C7E", "U+2C7F", "U+2C80", "U+2C82",
      "U+2C84", "U+2C86", "U+2C88", "U+2C8A", "U+2C8C", "U+2C8E", "U+2C90",
      "U+2C92", "U+2C94", "U+2C96", "U+2C98", "U+2C9A", "U+2C9C", "U+2C9E",
      "U+2CA0", "U+2CA2", "U+2CA4", "U+2CA6", "U+2CA8", "U+2CAA", "U+2CAC",
      "U+2CAE", "U+2CB0", "U+2CB2", "U+2CB4", "U+2CB6", "U+2CB8", "U+2CBA",
      "U+2CBC", "U+2CBE", "U+2CC0", "U+2CC2", "U+2CC4", "U+2CC6", "U+2CC8",
      "U+2CCA", "U+2CCC", "U+2CCE", "U+2CD0", "U+2CD2", "U+2CD4", "U+2CD6",
      "U+2CD8", "U+2CDA", "U+2CDC", "U+2CDE", "U+2CE0", "U+2CE2", "U+2CEB",
      "U+2CED", "U+2CF2", "U+A640", "U+A642", "U+A644", "U+A646", "U+A648",
      "U+A64A", "U+A64C", "U+A64E", "U+A650", "U+A652", "U+A654", "U+A656",
      "U+A658", "U+A65A", "U+A65C", "U+A65E", "U+A660", "U+A662", "U+A664",
      "U+A666", "U+A668", "U+A66A", "U+A66C", "U+A680", "U+A682", "U+A684",
      "U+A686", "U+A688", "U+A68A", "U+A68C", "U+A68E", "U+A690", "U+A692",
      "U+A694", "U+A696", "U+A698", "U+A69A", "U+A722", "U+A724", "U+A726",
      "U+A728", "U+A72A", "U+A72C", "U+A72E", "U+A732", "U+A734", "U+A736",
      "U+A738", "U+A73A", "U+A73C", "U+A73E", "U+A740", "U+A742", "U+A744",
      "U+A746", "U+A748", "U+A74A", "U+A74C", "U+A74E", "U+A750", "U+A752",
      "U+A754", "U+A756", "U+A758", "U+A75A", "U+A75C", "U+A75E", "U+A760",
      "U+A762", "U+A764", "U+A766", "U+A768", "U+A76A", "U+A76C", "U+A76E",
      "U+A779", "U+A77B", "U+A77D", "U+A77E", "U+A780", "U+A782", "U+A784",
      "U+A786", "U+A78B", "U+A78D", "U+A790", "U+A792", "U+A796", "U+A798",
      "U+A79A", "U+A79C", "U+A79E", "U+A7A0", "U+A7A2", "U+A7A4", "U+A7A6",
      "U+A7A8", "U+A7AA", "U+A7AB", "U+A7AC", "U+A7AD", "U+A7AE", "U+A7B0",
      "U+A7B1", "U+A7B2", "U+A7B3", "U+A7B4", "U+A7B6", "U+A7B8", "U+A7BA",
      "U+A7BC", "U+A7BE", "U+A7C2", "U+A7C4", "U+A7C5", "U+A7C6", "U+A7C7",
      "U+A7C9", "U+A7F5", "U+FF21", "U+FF22", "U+FF23", "U+FF24", "U+FF25",
      "U+FF26", "U+FF27", "U+FF28", "U+FF29", "U+FF2A", "U+FF2B", "U+FF2C",
      "U+FF2D", "U+FF2E", "U+FF2F", "U+FF30", "U+FF31", "U+FF32", "U+FF33",
      "U+FF34", "U+FF35", "U+FF36", "U+FF37", "U+FF38", "U+FF39", "U+FF3A",
      "U+10400", "U+10401", "U+10402", "U+10403", "U+10404", "U+10405",
      "U+10406", "U+10407", "U+10408", "U+10409", "U+1040A", "U+1040B",
      "U+1040C", "U+1040D", "U+1040E", "U+1040F", "U+10410", "U+10411",
      "U+10412", "U+10413", "U+10414", "U+10415", "U+10416", "U+10417",
      "U+10418", "U+10419", "U+1041A", "U+1041B", "U+1041C", "U+1041D",
      "U+1041E", "U+1041F", "U+10420", "U+10421", "U+10422", "U+10423",
      "U+10424", "U+10425", "U+10426", "U+10427", "U+104B0", "U+104B1",
      "U+104B2", "U+104B3", "U+104B4", "U+104B5", "U+104B6", "U+104B7",
      "U+104B8", "U+104B9", "U+104BA", "U+104BB", "U+104BC", "U+104BD",
      "U+104BE", "U+104BF", "U+104C0", "U+104C1", "U+104C2", "U+104C3",
      "U+104C4", "U+104C5", "U+104C6", "U+104C7", "U+104C8", "U+104C9",
      "U+104CA", "U+104CB", "U+104CC", "U+104CD", "U+104CE", "U+104CF",
      "U+104D0", "U+104D1", "U+104D2", "U+104D3", "U+10C80", "U+10C81",
      "U+10C82", "U+10C83", "U+10C84", "U+10C85", "U+10C86", "U+10C87",
      "U+10C88", "U+10C89", "U+10C8A", "U+10C8B", "U+10C8C", "U+10C8D",
      "U+10C8E", "U+10C8F", "U+10C90", "U+10C91", "U+10C92", "U+10C93",
      "U+10C94", "U+10C95", "U+10C96", "U+10C97", "U+10C98", "U+10C99",
      "U+10C9A", "U+10C9B", "U+10C9C", "U+10C9D", "U+10C9E", "U+10C9F",
      "U+10CA0", "U+10CA1", "U+10CA2", "U+10CA3", "U+10CA4", "U+10CA5",
      "U+10CA6", "U+10CA7", "U+10CA8", "U+10CA9", "U+10CAA", "U+10CAB",
      "U+10CAC", "U+10CAD", "U+10CAE", "U+10CAF", "U+10CB0", "U+10CB1",
      "U+10CB2", "U+118A0", "U+118A1", "U+118A2", "U+118A3", "U+118A4",
      "U+118A5", "U+118A6", "U+118A7", "U+118A8", "U+118A9", "U+118AA",
      "U+118AB", "U+118AC", "U+118AD", "U+118AE", "U+118AF", "U+118B0",
      "U+118B1", "U+118B2", "U+118B3", "U+118B4", "U+118B5", "U+118B6",
      "U+118B7", "U+118B8", "U+118B9", "U+118BA", "U+118BB", "U+118BC",
      "U+118BD", "U+118BE", "U+118BF", "U+16E40", "U+16E41", "U+16E42",
      "U+16E43", "U+16E44", "U+16E45", "U+16E46", "U+16E47", "U+16E48",
      "U+16E49", "U+16E4A", "U+16E4B", "U+16E4C", "U+16E4D", "U+16E4E",
      "U+16E4F", "U+16E50", "U+16E51", "U+16E52", "U+16E53", "U+16E54",
      "U+16E55", "U+16E56", "U+16E57", "U+16E58", "U+16E59", "U+16E5A",
      "U+16E5B", "U+16E5C", "U+16E5D", "U+16E5E", "U+16E5F", "U+1E900",
      "U+1E901", "U+1E902", "U+1E903", "U+1E904", "U+1E905", "U+1E906",
      "U+1E907", "U+1E908", "U+1E909", "U+1E90A", "U+1E90B", "U+1E90C",
      "U+1E90D", "U+1E90E", "U+1E90F", "U+1E910", "U+1E911", "U+1E912",
      "U+1E913", "U+1E914", "U+1E915", "U+1E916", "U+1E917", "U+1E918",
      "U+1E919", "U+1E91A", "U+1E91B", "U+1E91C", "U+1E91D", "U+1E91E",
      "U+1E91F", "U+1E920", "U+1E921">>
LowerLetters ==
    <<"a", "b", "c", "d", "e", "f", "g", "h", "i", "j", "k", "l", "m", "n",
      "o", "p", "q", "r", "s", "t", "u", "v", "w", "x", "y", "z", "U+00E0",
      "U+00E1", "U+00E2", "U+00E3", "U+00E4", "U+00E5", "U+00E6", "U+00E7",
      "U+00E8", "U+00E9", "U+00EA", "U+00EB", "U+00EC", "U+00ED", "U+00EE",
      "U+00EF", "U+00F0", "U+00F1", "U+00F2", "U+00F3", "U+00F4", "U+00F5",
      "U+00F6", "U+00F8", "U+00F9", "U+00FA", "U+00FB", "U+00FC", "U+00FD",
      "U+00FE", "U+0101", "U+0103", "U+0105", "U+0107", "U+0109", "U+010B",
      "U+010D", "U+010F", "U+0111", "U+0113", "U+0115", "U+0117", "U+0119",
      "U+011B", "U+011D", "U+011F", "U+0121", "U+0123", "U+0125", "U+0127",
      "U+0129", "U+012B", "U+012D", "U+012F", "i", "U+0133", "U+0135",
      "U+0137", "U+013A", "U+013C", "U+013E", "U+0140", "U+0142", "U+0144",
      "U+0146", "U+0148", "U+014B", "U+014D", "U+014F", "U+0151", "U+0153",
      "U+0155", "U+0157", "U+0159", "U+015B", "U+015D", "U+015F", "U+0161",
      "U+0163", "U+0165", "U+0167", "U+0169", "U+016B", "U+016D", "U+016F",
      "U+0171", "U+0173", "U+0175", "U+0177", "U+00FF", "U+017A", "U+017C",
      "U+017E", "U+0253", "U+0183", "U+0185", "U+0254", "U+0188", "U+0256",
      "U+0257", "U+018C", "U+01DD", "U+0259", "U+025B", "U+0192", "U+0260",
      "U+0263", "U+0269", "U+0268", "U+0199", "U+026F", "U+0272", "U+0275",
      "U+01A1", "U+01A3", "U+01A5", "U+0280", "U+01A8", "U+0283", "U+01AD",
      "U+0288", "U+01B0", "U+028A", "U+028B", "U+01B4", "U+01B6", "U+0292",
      "U+01B9", "U+01BD", "U+01C6", "U+01C6", "U+01C9", "U+01C9", "U+01CC",
      "U+01CC", "U+01CE", "U+01D0", "U+01D2", "U+01D4", "U+01D6", "U+01D8",
      "U+01DA", "U+01DC", "U+01DF", "U+01E1", "U+01E3", "U+01E5", "U+01E7",
      "U+01E9", "U+01EB", "U+01ED", "U+01EF", "U+01F3", "U+01F3", "U+01F5",
      "U+0195", "U+01BF", "U+01F9", "U+01FB", "U+01FD", "U+01FF", "U+0201",
      "U+0203", "U+0205", "U+0207", "U+0209", "U+020B", "U+020D", "U+020F",
      "U+0211", "U+0213", "U+0215", "U+0217", "U+0219", "U+021B", "U+021D",
      "U+021F", "U+019E", "U+0223", "U+0225", "U+0227", "U+0229", "U+022B",
      "U+022D", "U+022F", "U+0231", "U+0233", "U+2C65", "U+023C", "U+019A",
      "U+2C66", "U+0242", "U+0180", "U+0289", "U+028C", "U+0247", "U+0249",
      "U+024B", "U+024D", "U+024F", "U+0371", "U+0373", "U+0377", "U+03F3",
      "U+03AC", "U+03AD", "U+03AE", "U+03AF", "U+03CC", "U+03CD", "U+03CE",
      "U+03B1", "U+03B2", "U+03B3", "U+03B4", "U+03B5", "U+03B6", "U+03B7",
      "U+03B8", "U+03B9", "U+03BA", "U+03BB", "U+03BC", "U+03BD", "U+03BE",
      "U+03BF", "U+03C0", "U+03C1", "U+03C3", "U+03C4", "U+03C5", "U+03C6",
      "U+03C7", "U+03C8", "U+03C9", "U+03CA", "U+03CB", "U+03D7", "U+03D9",
      "U+03DB", "U+03DD", "U+03DF", "U+03E1", "U+03E3", "U+03E5", "U+03E7",
      "U+03E9", "U+03EB", "U+03ED", "U+03EF", "U+03B8", "U+03F8", "U+03F2",
      "U+03FB", "U+037B", "U+037C", "U+037D", "U+0450", "U+0451", "U+0452",
      "U+0453", "U+0454", "U+0455", "U+0456", "U+0457", "U+0458", "U+0459",
      "U+045A", "U+045B", "U+045C", "U+045D", "U+045E", "U+045F", "U+0430",
      "U+0431", "U+0432", "U+0433", "U+0434", "U+0435", "U+0436", "U+0437",
      "U+0438", "U+0439", "U+043A", "U+043B", "U+043C", "U+043D", "U+043E",
      "U+043F", "U+0440", "U+0441", "U+0442", "U+0443", "U+0444", "U+0445",
      "U+0446", "U+0447", "U+0448", "U+0449", "U+044A", "U+044B", "U+044C",
      "U+044D", "U+044E", "U+044F", "U+0461", "U+0463", "U+0465", "U+0467",
      "U+0469", "U+046B", "U+046D", "U+046F", "U+0471", "U+0473", "U+0475",
      "U+0477", "U+0479", "U+047B", "U+047D", "U+047F", "U+0481", "U+048B",
      "U+048D", "U+048F", "U+0491", "U+0493", "U+0495", "U+0497", "U+0499",
      "U+049B", "U+049D", "U+049F", "U+04A1", "U+04A3", "U+04A5", "U+04A7",
      "U+04A9", "U+04AB", "U+04AD", "U+04AF", "U+04B1", "U+04B3", "U+04B5",
      "U+04B7", "U+04B9", "U+04BB", "U+04BD", "U+04BF", "U+04CF", "U+04C2",
      "U+04C4", "U+04C6", "U+04C8", "U+04CA", "U+04CC", "U+04CE", "U+04D1",
      "U+04D3", "U+04D5", "U+04D7", "U+04D9", "U+04DB", "U+04DD", "U+04DF",
      "U+04E1", "U+04E3", "U+04E5", "U+04E7", "U+04E9", "U+04EB", "U+04ED",
      "U+04EF", "U+04F1", "U+04F3", "U+04F5", "U+04F7", "U+04F9", "U+04FB",
      "U+04FD", "U+04FF", "U+0501", "U+0503", "U+0505", "U+0507", "U+0509",
      "U+050B", "U+050D", "U+050F", "U+0511", "U+0513", "U+0515", "U+0517",
      "U+0519", "U+051B", "U+051D", "U+051F", "U+0521", "U+0523", "U+0525",
      "U+0527", "U+0529", "U+052B", "U+052D", "U+052F", "U+0561", "U+0562",
      "U+0563", "U+0564", "U+0565", "U+0566", "U+0567", "U+0568", "U+0569",
      "U+056A", "U+056B", "U+056C", "U+056D", "U+056E", "U+056F", "U+0570",
      "U+0571", "U+0572", "U+0573", "U+0574", "U+0575", "U+0576", "U+0577",
      "U+0578", "U+0579", "U+057A", "U+057B", "U+057C", "U+057D", "U+057E",
      "U+057F", "U+0580", "U+0581", "U+0582", "U+0583", "U+0584", "U+0585",
      "U+0586", "U+2D00", "U+2D01", "U+2D02", "U+2D03", "U+2D04", "U+2D05",
      "U+2D06", "U+2D07", "U+2D08", "U+2D09", "U+2D0A", "U+2D0B", "U+2D0C",
      "U+2D0D", "U+2D0E", "U+2D0F", "U+2D10", "U+2D11", "U+2D12", "U+2D13",
      "U+2D14", "U+2D15", "U+2D16", "U+2D17", "U+2D18", "U+2D19", "U+2D1A",
      "U+2D1B", "U+2D1C", "U+2D1D", "U+2D1E", "U+2D1F", "U+2D20", "U+2D21",
      "U+2D22", "U+2D23", "U+2D24", "U+2D25", "U+2D27", "U+2D2D", "U+AB70",
      "U+AB71", "U+AB72", "U+AB73", "U+AB74", "U+AB75", "U+AB76", "U+AB77",
      "U+AB78", "U+AB79", "U+AB7A", "U+AB7B", "U+AB7C", "U+AB7D", "U+AB7E",
      "U+AB7F", "U+AB80", "U+AB81", "U+AB82", "U+AB83", "U+AB84", "U+AB85",
      "U+AB86", "U+AB87", "U+AB88", "U+AB89", "U+AB8A", "U+AB8B", "U+AB8C",
      "U+AB8D", "U+AB8E", "U+AB8F", "U+AB90", "U+AB91", "U+AB92", "U+AB93",
      "U+AB94", "U+AB95", "U+AB96", "U+AB97", "U+AB98", "U+AB99", "U+AB9A",
      "U+AB9B", "U+AB9C", "U+AB9D", "U+AB9E", "U+AB9F", "U+ABA0", "U+ABA1",
      "U+ABA2", "U+ABA3", "U+ABA4", "U+ABA5", "U+ABA6", "U+ABA7", "U+ABA8",
      "U+ABA9", "U+ABAA", "U+ABAB", "U+ABAC", "U+ABAD", "U+ABAE", "U+ABAF",
      "U+ABB0", "U+ABB1", "U+ABB2", "U+ABB3", "U+ABB4", "U+ABB5", "U+ABB6",
      "U+ABB7", "U+ABB8", "U+ABB9", "U+ABBA", "U+ABBB", "U+ABBC", "U+ABBD",
      "U+ABBE", "U+ABBF", "U+13F8", "U+13F9", "U+13FA", "U+13FB", "U+13FC",
      "U+13FD", "U+10D0", "U+10D1", "U+10D2", "U+10D3", "U+10D4", "U+10D5",
      "U+10D6", "U+10D7", "U+10D8", "U+10D9", "U+10DA", "U+10DB", "U+10DC",
      "U+10DD", "U+10DE", "U+10DF", "U+10E0", "U+10E1", "U+10E2", "U+10E3",
      "U+10E4", "U+10E5", "U+10E6", "U+10E7", "U+10E8", "U+10E9", "U+10EA",
      "U+10EB", "U+10EC", "U+10ED", "U+10EE", "U+10EF", "U+10F0", "U+10F1",
      "U+10F2", "U+10F3", "U+10F4", "U+10F5", "U+10F6", "U+10F7", "U+10F8",
      "U+10F9", "U+10FA", "U+10FD", "U+10FE", "U+10FF", "U+1E01", "U+1E03",
      "U+1E05", "U+1E07", "U+1E09", "U+1E0B", "U+1E0D", "U+1E0F", "U+1E11",
      "U+1E13", "U+1E15", "U+1E17", "U+1E19", "U+1E1B", "U+1E1D", "U+1E1F",
      "U+1E21", "U+1E23", "U+1E25", "U+1E27", "U+1E29", "U+1E2B", "U+1E2D",
      "U+1E2F", "U+1E31", "U+1E33", "U+1E35", "U+1E37", "U+1E39", "U+1E3B",
      "U+1E3D", "U+1E3F", "U+1E41", "U+1E43", "U+1E45", "U+1E47", "U+1E49",
      "U+1E4B", "U+1E4D", "U+1E4F", "U+1E51", "U+1E53", "U+1E55", "U+1E57",
      "U+1E59", "U+1E5B", "U+1E5D", "U+1E5F", "U+1E61", "U+1E63", "U+1E65",
      "U+1E67", "U+1E69", "U+1E6B", "U+1E6D", "U+1E6F", "U+1E71", "U+1E73",
      "U+1E75", "U+1E77", "U+1E79", "U+1E7B", "U+1E7D", "U+1E7F", "U+1E81",
      "U+1E83", "U+1E85", "U+1E87", "U+1E89", "U+1E8B", "U+1E8D", "U+1E8F",
      "U+1E91", "U+1E93", "U+1E95", "U+00DF", "U+1EA1", "U+1EA3", "U+1EA5",
      "U+1EA7", "U+1EA9", "U+1EAB", "U+1EAD", "U+1EAF", "U+1EB1", "U+1EB3",
      "U+1EB5", "U+1EB7", "U+1EB9", "U+1EBB", "U+1EBD", "U+1EBF", "U+1EC1",
      "U+1EC3", "U+1EC5", "U+1EC7", "U+1EC9", "U+1ECB", "U+1ECD", "U+1ECF",
      "U+1ED1", "U+1ED3", "U+1ED5", "U+1ED7", "U+1ED9", "U+1EDB", "U+1EDD",
      "U+1EDF", "U+1EE1", "U+1EE3", "U+1EE5", "U+1EE7", "U+1EE9", "U+1EEB",
      "U+1EED", "U+1EEF", "U+1EF1", "U+1EF3", "U+1EF5", "U+1EF7", "U+1EF9",
      "U+1EFB", "U+1EFD", "U+1EFF", "U+1F00", "U+1F01", "U+1F02", "U+1F03",
      "U+1F04", "U+1F05", "U+1F06", "U+1F07", "U+1F10", "U+1F11", "U+1F12",
      "U+1F13", "U+1F14", "U+1F15", "U+1F20", "U+1F21", "U+1F22", "U+1F23",
      "U+1F24", "U+1F25", "U+1F26", "U+1F27", "U+1F30", "U+1F31", "U+1F32",
      "U+1F33", "U+1F34", "U+1F35", "U+1F36", "U+1F37", "U+1F40", "U+1F41",
      "U+1F42", "U+1F43", "U+1F44", "U+1F45", "U+1F51", "U+1F53", "U+1F55",
      "U+1F57", "U+1F60", "U+1F61", "U+1F62", "U+1F63", "U+1F64", "U+1F65",
      "U+1F66", "U+1F67", "U+1F80", "U+1F81", "U+1F82", "U+1F83", "U+1F84",
      "U+1F85", "U+1F86", "U+1F87", "U+1F90", "U+1F91", "U+1F92", "U+1F93",
      "U+1F94", "U+1F95", "U+1F96", "U+1F97", "U+1FA0", "U+1FA1", "U+1FA2",
      "U+1FA3", "U+1FA4", "U+1FA5", "U+1FA6", "U+1FA7", "U+1FB0", "U+1FB1",
      "U+1F70", "U+1F71", "U+1FB3", "U+1F72", "U+1F73", "U+1F74", "U+1F75",
      "U+1FC3", "U+1FD0", "U+1FD1", "U+1F76", "U+1F77", "U+1FE0", "U+1FE1",
      "U+1F7A", "U+1F7B", "U+1FE5", "U+1F78", "U+1F79", "U+1F7C", "U+1F7D",
      "U+1FF3", "U+03C9", "k", "U+00E5", "U+214E", "U+2170", "U+2171",
      "U+2172", "U+2173", "U+2174", "U+2175", "U+2176", "U+2177", "U+2178",
      "U+2179", "U+217A", "U+217B", "U+217C", "U+217D", "U+217E", "U+217F",
      "U+2184", "U+24D0", "U+24D1", "U+24D2", "U+24D3", "U+24D4", "U+24D5",
      "U+24D6", "U+24D7", "U+24D8", "U+24D9", "U+24DA", "U+24DB", "U+24DC",
      "U+24DD", "U+24DE", "U+24DF", "U+24E0", "U+24E1", "U+24E2", "U+24E3",
      "U+24E4", "U+24E5", "U+24E6", "U+24E7", "U+24E8", "U+24E9", "U+2C30",
      "U+2C31", "U+2C32", "U+2C33", "U+2C34", "U+2C35", "U+2C36", "U+2C37",
      "U+2C38", "U+2C39", "U+2C3A", "U+2C3B", "U+2C3C", "U+2C3D", "U+2C3E",
      "U+2C3F", "U+2C40", "U+2C41", "U+2C42", "U+2C43", "U+2C44", "U+2C45",
      "U+2C46", "U+2C47", "U+2C48", "U+2C49", "U+2C4A", "U+2C4B", "U+2C4C",
      "U+2C4D", "U+2C4E", "U+2C4F", "U+2C50", "U+2C51", "U+2C52", "U+2C53",
      "U+2C54", "U+2C55", "U+2C56", "U+2C57", "U+2C58", "U+2C59", "U+2C5A",
      "U+2C5B", "U+2C5C", "U+2C5D", "U+2C5E", "U+2C61", "U+026B", "U+1D7D",
      "U+027D", "U+2C68", "U+2C6A", "U+2C6C", "U+0251", "U+0271", "U+0250",
      "U+0252", "U+2C73", "U+2C76", "U+023F", "U+0240", "U+2C81", "U+2C83",
      "U+2C85", "U+2C87", "U+2C89", "U+2C8B", "U+2C8D", "U+2C8F", "U+2C91",
      "U+2C93", "U+2C95", "U+2C97", "U+2C99", "U+2C9B", "U+2C9D", "U+2C9F",
      "U+2CA1", "U+2CA3", "U+2CA5", "U+2CA7", "U+2CA9", "U+2CAB", "U+2CAD",
      "U+2CAF", "U+2CB1", "U+2CB3", "U+2CB5", "U+2CB7", "U+2CB9", "U+2CBB",
      "U+2CBD", "U+2CBF", "U+2CC1", "U+2CC3", "U+2CC5", "U+2CC7", "U+2CC9",
      "U+2CCB", "U+2CCD", "U+2CCF", "U+2CD1", "U+2CD3", "U+2CD5", "U+2CD7",
      "U+2CD9", "U+2CDB", "U+2CDD", "U+2CDF", "U+2CE1", "U+2CE3", "U+2CEC",
      "U+2CEE", "U+2CF3", "U+A641", "U+A643", "U+A645", "U+A647", "U+A649",
      "U+A64B", "U+A64D", "U+A64F", "U+A651", "U+A653", "U+A655", "U+A657",
      "U+A659", "U+A65B", "U+A65D", "U+A65F", "U+A661", "U+A663", "U+A665",
      "U+A667", "U+A669", "U+A66B", "U+A66D", "U+A681", "U+A683", "U+A685",
      "U+A687", "U+A689", "U+A68B", "U+A68D", "U+A68F", "U+A691", "U+A693",
      "U+A695", "U+A697", "U+A699", "U+A69B", "U+A723", "U+A725", "U+A727",
      "U+A729", "U+A72B", "U+A72D", "U+A72F", "U+A733", "U+A735", "U+A737",
      "U+A739", "U+A73B", "U+A73D", "U+A73F", "U+A741", "U+A743", "U+A745",
      "U+A747", "U+A749", "U+A74B", "U+A74D", "U+A74F", "U+A751", "U+A753",
      "U+A755", "U+A757", "U+A759", "U+A75B", "U+A75D", "U+A75F", "U+A761",
      "U+A763", "U+A765", "U+A767", "U+A769", "U+A76B", "U+A76D", "U+A76F",
      "U+A77A", "U+A77C", "U+1D79", "U+A77F", "U+A781", "U+A783", "U+A785",
      "U+A787", "U+A78C", "U+0265", "U+A791", "U+A793", "U+A797", "U+A799",
      "U+A79B", "U+A79D", "U+A79F", "U+A7A1", "U+A7A3", "U+A7A5", "U+A7A7",
      "U+A7A9", "U+0266", "U+025C", "U+0261", "U+026C", "U+026A", "U+029E",
      "U+0287", "U+029D", "U+AB53", "U+A7B5", "U+A7B7", "U+A7B9", "U+A7BB",
      "U+A7BD", "U+A7BF", "U+A7C3", "U+A794", "U+0282", "U+1D8E", "U+A7C8",
      "U+A7CA", "U+A7F6", "U+FF41", "U+FF42", "U+FF43", "U+FF44", "U+FF45",
      "U+FF46", "U+FF47", "U+FF48", "U+FF49", "U+FF4A", "U+FF4B", "U+FF4C",
      "U+FF4D", "U+FF4E", "U+FF4F", "U+FF50", "U+FF51", "U+FF52", "U+FF53",
      "U+FF54", "U+FF55", "U+FF56", "U+FF57", "U+FF58", "U+FF59", "U+FF5A",
      "U+10428", "U+10429", "U+1042A", "U+1042B", "U+1042C", "U+1042D",
      "U+1042E", "U+1042F", "U+10430", "U+10431", "U+10432", "U+10433",
      "U+10434", "U+10435", "U+10436", "U+10437", "U+10438", "U+10439",
      "U+1043A", "U+1043B", "U+1043C", "U+1043D", "U+1043E", "U+1043F",
      "U+10440", "U+10441", "U+10442", "U+10443", "U+10444", "U+10445",
      "U+10446", "U+10447", "U+10448", "U+10449", "U+1044A", "U+1044B",
      "U+1044C", "U+1044D", "U+1044E", "U+1044F", "U+104D8", "U+104D9",
      "U+104DA", "U+104DB", "U+104DC", "U+104DD", "U+104DE", "U+104DF",
      "U+104E0", "U+104E1", "U+104E2", "U+104E3", "U+104E4", "U+104E5",
      "U+104E6", "U+104E7", "U+104E8", "U+104E9", "U+104EA", "U+104EB",
      "U+104EC", "U+104ED", "U+104EE", "U+104EF", "U+104F0", "U+104F1",
      "U+104F2", "U+104F3", "U+104F4", "U+104F5", "U+104F6", "U+104F7",
      "U+104F8", "U+104F9", "U+104FA", "U+104FB", "U+10CC0", "U+10CC1",
      "U+10CC2", "U+10CC3", "U+10CC4", "U+10CC5", "U+10CC6", "U+10CC7",
      "U+10CC8", "U+10CC9", "U+10CCA", "U+10CCB", "U+10CCC", "U+10CCD",
      "U+10CCE", "U+10CCF", "U+10CD0", "U+10CD1", "U+10CD2", "U+10CD3",
      "U+10CD4", "U+10CD5", "U+10CD6", "U+10CD7", "U+10CD8", "U+10CD9",
      "U+10CDA", "U+10CDB", "U+10CDC", "U+10CDD", "U+10CDE", "U+10CDF",
      "U+10CE0", "U+10CE1", "U+10CE2", "U+10CE3", "U+10CE4", "U+10CE5",
      "U+10CE6", "U+10CE7", "U+10CE8", "U+10CE9", "U+10CEA", "U+10CEB",
      "U+10CEC", "U+10CED", "U+10CEE", "U+10CEF", "U+10CF0", "U+10CF1",
      "U+10CF2", "U+118C0", "U+118C1", "U+118C2", "U+118C3", "U+118C4",
      "U+118C5", "U+118C6", "U+118C7", "U+118C8", "U+118C9", "U+118CA",
      "U+118CB", "U+118CC", "U+118CD", "U+118CE", "U+118CF", "U+118D0",
      "U+118D1", "U+118D2", "U+118D3", "U+118D4", "U+118D5", "U+118D6",
      "U+118D7", "U+118D8", "U+118D9", "U+118DA", "U+118DB", "U+118DC",
      "U+118DD", "U+118DE", "U+118DF", "U+16E60", "U+16E61", "U+16E62",
      "U+16E63", "U+16E64", "U+16E65", "U+16E66", "U+16E67", "U+16E68",
      "U+16E69", "U+16E6A", "U+16E6B", "U+16E6C", "U+16E6D", "U+16E6E",
      "U+16E6F", "U+16E70", "U+16E71", "U+16E72", "U+16E73", "U+16E74",
      "U+16E75", "U+16E76", "U+16E77", "U+16E78", "U+16E79", "U+16E7A",
      "U+16E7B", "U+16E7C", "U+16E7D", "U+16E7E", "U+16E7F", "U+1E922",
      "U+1E923", "U+1E924", "U+1E925", "U+1E926", "U+1E927", "U+1E928",
      "U+1E929", "U+1E92A", "U+1E92B", "U+1E92C", "U+1E92D", "U+1E92E",
      "U+1E92F", "U+1E930", "U+1E931", "U+1E932", "U+1E933", "U+1E934",
      "U+1E935", "U+1E936", "U+1E937", "U+1E938", "U+1E939", "U+1E93A",
      "U+1E93B", "U+1E93C", "U+1E93D", "U+1E93E", "U+1E93F", "U+1E940",
      "U+1E941", "U+1E942", "U+1E943">>
LowerOf ==
    [u \in {UpperLetters[k] : k \in 1..Len(UpperLetters)} |->
        LowerLetters[CHOOSE k \in 1..Len(UpperLetters) : UpperLetters[k] = u]]
ToLowerRune(ch) == IF ch \in DOMAIN LowerOf THEN LowerOf[ch] ELSE ch
ToLower(s) == [i \in 1..Len(s) |-> ToLowerRune(s[i])]

\* strings.Contains(s, sub)
Contains(s, sub) == indexRunesFrom(s, sub, 0) >= 0

\* os.IsPathSeparator of Windows, the system the program is built for.
IsPathSeparator(ch) == ch \in {"/", "\\"}

\* filepath.Ext(name): the suffix that starts at the last dot of the last
\* element of the path, "" without one.
RECURSIVE ExtFrom(_, _)
ExtFrom(name, i) ==
    IF i < 1 \/ IsPathSeparator(name[i]) THEN <<>>
    ELSE IF name[i] = "." THEN SubSeq(name, i, Len(name))
    ELSE ExtFrom(name, i - 1)
Ext(name) == ExtFrom(name, Len(name))

\* daemonSupportedExt: the extensions of the files the crawl sends to jobs.
daemonSupportedExt ==
    {<<".", "t", "x", "t">>, <<".", "m", "d">>, <<".", "l", "o", "g">>,
     <<".", "c", "s", "v">>, <<".", "j", "s", "o", "n">>, <<".", "x", "m", "l">>,
     <<".", "i", "n", "i">>, <<".", "y", "a", "m", "l">>, <<".", "y", "m", "l">>,
     <<".", "d", "o", "c">>, <<".", "d", "o", "c", "x">>, <<".", "x", "l", "s">>,
     <<".", "x", "l", "s", "x">>, <<".", "p", "p", "t">>, <<".", "p", "p", "t", "x">>,
     <<".", "p", "d", "f">>, <<".", "v", "s", "d", "x">>}

\* The tag put before a snippet taken from the file name.
NameTag == "name: "

\* streamFindSnippets over a source that yields the whole text as one
\* fragment and then EOF, which is what textFileFindSnippets feeds it for a
\* UTF-8 file shorter than its 32 KiB read buffer.
streamFindSnippetsWhole(text, query, contextLen, maxSnippets) ==
    IF stringsTrimSpace(query) = <<>> THEN RetSnips(<<>>, "query empty")
    ELSE IF text = <<>> THEN RetSnips(<<>>, "nil")
    ELSE LET c == NormContext(contextLen)
             r == SnippetScan(text, 0, <<>>, query, c, NormMaxSnippets(maxSnippets))
         IN IF r.kind = "more"
            THEN RetSnips(Append(r.snips,
                     BuildSnippet(text, r.matchStart, r.matchStart + Len(query), c)), "nil")
            ELSE RetSnips(r.snips, "nil")

\* extract.FileFindSnippets(ctx, p, t, contextLen, maxSnips) on a text file:
\* os.Open fails for an unreadable file, the matcher returns ctx.Err() when
\* it sees the context cancelled (ctxErr).
FileFindSnippets(content, query, contextLen, maxSnippets, ctxErr) ==
    IF ~content.ok THEN RetSnips(<<>>, "open")
    ELSE IF stringsTrimSpace(query) = <<>> THEN RetSnips(<<>>, "query empty")
    ELSE IF ctxErr THEN RetSnips(<<>>, "canceled")
    ELSE streamFindSnippetsWhole(content.text, query, contextLen, maxSnippets)

\* append(snipsOut, ...) up to maxTotal snippets.
RECURSIVE AppendUpTo(_, _, _)
AppendUpTo(snipsOut, snips, maxTotal) ==
    IF snips = <<>> \/ Len(snipsOut) >= maxTotal THEN snipsOut
    ELSE AppendUpTo(Append(snipsOut, Head(snips)), Tail(snips), maxTotal)

\* matchedInName[i] of the worker loop, as it is.
matchedInName(fileName, t) ==
    Contains(fileName, t) \/ Contains(ToLower(fileName), ToLower(t))

\* A mutant of MatchTerm: a content search that fails or finds nothing does
\* not reject the file.
MatchTerm_NoReject(fileName, content, t, contextLen, maxSnips, maxTotal, ctxErr, snipsOut) ==
    IF matchedInName(fileName, t)
    THEN [reject |-> FALSE, err |-> "name",
          snipsOut |-> AppendUpTo(snipsOut,
                          LET nameSnips == FindSnippets(fileName, t, contextLen, maxSnips)
                          IN [k \in 1..Len(nameSnips) |-> <<NameTag>> \o nameSnips[k]],
                          maxTotal)]
    ELSE LET r == FileFindSnippets(content, t, contextLen, maxSnips, ctxErr) IN
         [reject |-> FALSE, err |-> r.err,
          snipsOut |-> AppendUpTo(snipsOut, r.snips, maxTotal)]

\* One round of the per-term loop of a worker, for term t: a term matched in
\* the name gives the tagged snippets of the name (err is "name": no content
\* search); otherwise extract.FileFindSnippets is called, and an error or no
\* snippet rejects the file (allMatch = false; break).
MatchTerm(fileName, content, t, contextLen, maxSnips, maxTotal, ctxErr, snipsOut) ==
    IF matchedInName(fileName, t)
    THEN [reject |-> FALSE, err |-> "name",
          snipsOut |-> AppendUpTo(snipsOut,
                          LET nameSnips == FindSnippets(fileName, t, contextLen, maxSnips)
                          IN [k \in 1..Len(nameSnips) |-> <<NameTag>> \o nameSnips[k]],
                          maxTotal)]
    ELSE LET r == FileFindSnippets(content, t, contextLen, maxSnips, ctxErr) IN
         IF r.err # "nil" \/ r.snips = <<>>
         THEN [reject |-> TRUE, err |-> r.err, snipsOut |-> snipsOut]
         ELSE [reject |-> FALSE, err |-> r.err,
               snipsOut |-> AppendUpTo(snipsOut, r.snips, maxTotal)]

\* terms of startSearch: the trimmed queries that are not empty.
TermsOf(cmd) ==
    SelectSeq(<<stringsTrimSpace(cmd.Query), stringsTrimSpace(cmd.Query2),
                stringsTrimSpace(cmd.Query3)>>, LAMBDA t : t # <<>>)

\* workers of startSearch: opts.Workers when positive, otherwise
\* runtime.NumCPU() (DefaultWorkers if that is not positive), cut to
\* WorkersCap386 on a 386 build and to WorkersCap.
workersOf(optsWorkers, rt) ==
    IF optsWorkers > 0 THEN optsWorkers
    ELSE LET n == IF rt.NumCPU <= 0 THEN DefaultWorkers ELSE rt.NumCPU
             m == IF rt.GOARCH = "386" /\ n > WorkersCap386 THEN WorkersCap386 ELSE n
         IN IF m > WorkersCap THEN WorkersCap ELSE m

\* maxSnips and maxTotal of startSearch.
maxSnipsOf(cmd) == IF cmd.MaxSnippets <= 0 THEN DefaultMaxSnips ELSE cmd.MaxSnippets
maxTotalOf(cmd) ==
    IF Len(TermsOf(cmd)) > 1
    THEN Min(maxSnipsOf(cmd) * Len(TermsOf(cmd)), MaxTotalCap)
    ELSE maxSnipsOf(cmd)

\* ----- the daemon as a state machine -----

\* The daemons examined: the -workers flag given (the host does not
\* matter then) or left at 0, on hosts where NumCPU() is taken as it is or
\* cut on a 386 build.
Host(w, n, arch) == [Workers |-> w, rt |-> [NumCPU |-> n, GOARCH |-> arch]]
DaemonHosts ==
    {Host(1, 1, "amd64"), Host(2, 1, "amd64"), Host(0, 1, "amd64"), Host(0, 3, "386")}
OnHost(h) ==
    /\ dmWorkers = h.Workers
    /\ dmRuntime = h.rt

RunIds == 1..MaxLines
WorkerIds == 1..SetMax({workersOf(h.Workers, h.rt) : h \in DaemonHosts})

\* A worker at position pc with nothing in hand.  In the loop body a worker
\* holds its job, the index of the term it is at, snipsOut, the terms (by
\* index) for which it called extract.FileFindSnippets and the errors of
\* those calls.
WorkerAt(pc) ==
    [pc |-> pc, job |-> 0, term |-> 0, snipsOut |-> <<>>, searched |-> <<>>, errs |-> <<>>]

\* A run that was never started.  walk is the entry the WalkDir callback is
\* called on next and walkPc its position in that call: "check" at its top,
\* "send" at its select.  taken[f] counts the times entry f was received from
\* jobs and evals[f] the times a worker went through the loop body for it.
NoRun ==
    [started |-> FALSE, terms |-> <<>>, QueryID |-> 0, contextLen |-> 0, maxSnips |-> 0,
     maxTotal |-> 0, cancelled |-> FALSE, walk |-> 1, closed |-> FALSE, jobs |-> <<>>,
     w |-> [i \in WorkerIds |-> WorkerAt("recv")], done |-> 0,
     hardLimit |-> FALSE, walkPc |-> "check", taken |-> <<>>, evals |-> <<>>]

NoLog == [kind |-> "none", run |-> 0, QueryID |-> 0, terms |-> <<>>, file |-> 0,
          snips |-> <<>>, ctxErr |-> FALSE, hardLimit |-> FALSE, searched |-> <<>>,
          errs |-> <<>>]

\* The setQuery commands stdin may carry (QueryID is filled in by the line
\* number).
Cmd(q, q2, q3, c, n) ==
    [Query |-> q, Query2 |-> q2, Query3 |-> q3, QueryID |-> 0,
     ContextLen |-> c, MaxSnippets |-> n]
DaemonCmds ==
    {Cmd(<<"a">>, <<>>, <<>>, 1, 0),
     Cmd(<<" ", "b">>, <<"a">>, <<>>, 1, 1),
     Cmd(<<"b">>, <<"\r", "\n">>, <<"A">>, 0, 1),
     Cmd(<<" ">>, <<>>, <<>>, 1, 0)}

\* No command: the line was not one, or none was read yet.
NoCmd == Cmd(<<>>, <<>>, <<>>, 0, 0)
NoLine == [kind |-> "none", cmd |-> NoCmd]

\* A mutant of Cancelled: the context of the run in progress is left alone.
Cancelled_Never(runs, c) == runs

\* cancel(): the context of run c, if any, is cancelled.
Cancelled(runs, c) ==
    IF c = 0 THEN runs ELSE [runs EXCEPT ![c].cancelled = TRUE]

\* The daemon has not returned.
DmRunning == dmPc # "exited"

\* The main loop reads a setQuery command and enters startSearch(cmd), up to
\* searchMu.Unlock(): under the lock the context of the run in progress is
\* cancelled and cancel becomes the function of the new context.  The
\* command on line n carries QueryID n.
ReadSetQuery ==
    /\ dmPc = "loop" /\ dmLines < dmStdin.lines
    /\ \E c \in dmStdin.cmds :
         LET n == dmLines + 1 IN
            /\ dmLines' = n
            /\ dmCmd' = [kind |-> "setQuery", cmd |-> [c EXCEPT !.QueryID = n]]
            /\ dmCancel' = n
    /\ dmRuns' = Cancelled(dmRuns, dmCancel)
    /\ dmPc' = "start"
    /\ UNCHANGED <<dmStdin, dmWorkers, dmRuntime, dmTree, dmLog>>
    /\ UNCHANGED dmRest

\* startSearch after searchMu.Unlock(): without a term it emits status
\* "idle" and returns; otherwise it starts the monitor, the workers, the
\* crawl and the goroutine that emits done.  The goroutines of the earlier
\* runs take their steps between the unlock and this.
StartSearch ==
    /\ dmPc = "start"
    /\ LET cmd == dmCmd.cmd
           n == cmd.QueryID
           terms == TermsOf(cmd)
       IN IF terms = <<>>
          THEN /\ dmLog' = [NoLog EXCEPT !.kind = "idle", !.QueryID = cmd.QueryID]
               /\ UNCHANGED dmRuns
          ELSE /\ dmRuns' = [dmRuns EXCEPT ![n] =
                      [NoRun EXCEPT !.started = TRUE, !.terms = terms,
                                    !.w = [i \in WorkerIds |->
                                             IF i <= workersOf(dmWorkers, dmRuntime)
                                             THEN WorkerAt("recv")
                                             ELSE WorkerAt("none")],
                                    !.QueryID = cmd.QueryID,
                                    !.contextLen = cmd.ContextLen,
                                    !.maxSnips = maxSnipsOf(cmd),
                                    !.maxTotal = maxTotalOf(cmd),
                                    !.taken = [f \in 1..Len(dmTree) |-> 0],
                                    !.evals = [f \in 1..Len(dmTree) |-> 0]]]
               /\ UNCHANGED dmLog
    /\ dmPc' = "loop"
    /\ UNCHANGED <<dmStdin, dmWorkers, dmRuntime, dmLines, dmCmd, dmTree, dmCancel>>
    /\ UNCHANGED dmRest

\* A mutant of ReadOther: a line that is not a setQuery command cancels the
\* run in progress.
ReadOther_Cancels ==
    /\ dmPc = "loop" /\ dmLines < dmStdin.lines
    /\ dmLines' = dmLines + 1
    /\ \E kind \in {"not JSON", "other cmd"} : dmCmd' = [kind |-> kind, cmd |-> NoCmd]
    /\ dmRuns' = Cancelled(dmRuns, dmCancel)
    /\ UNCHANGED <<dmPc, dmStdin, dmWorkers, dmRuntime, dmTree, dmCancel, dmLog>>
    /\ UNCHANGED dmRest

\* The main loop reads a line that is not JSON (json.Unmarshal fails), or a
\* command other than setQuery: nothing happens.
ReadOther ==
    /\ dmPc = "loop" /\ dmLines < dmStdin.lines
    /\ dmLines' = dmLines + 1
    /\ \E kind \in {"not JSON", "other cmd"} : dmCmd' = [kind |-> kind, cmd |-> NoCmd]
    /\ UNCHANGED <<dmPc, dmStdin, dmWorkers, dmRuntime, dmTree, dmRuns, dmCancel, dmLog>>
    /\ UNCHANGED dmRest

\* in.ReadBytes fails (EOF or an error): RunDaemon returns and the process
\* ends, its goroutines, contexts and channels with it.  What stays is what
\* was written to stdout.
ReadEOF ==
    /\ dmPc = "loop"
    /\ dmPc' = "exited"
    /\ dmRuns' = [r \in RunIds |->
                    [NoRun EXCEPT !.started = dmRuns[r].started,
                                  !.QueryID = dmRuns[r].QueryID,
                                  !.done = dmRuns[r].done]]
    /\ dmCancel' = 0
    /\ UNCHANGED <<dmStdin, dmWorkers, dmRuntime, dmLines, dmCmd, dmTree, dmLog>>
    /\ UNCHANGED dmRest

\* The monitor of run r finds m.Alloc above the limit and cancels the run
\* (hardLimit records that this run was cancelled by its monitor).
MonitorCancel(r) ==
    /\ DmRunning /\ dmRuns[r].started /\ ~dmRuns[r].cancelled
    /\ dmRuns' = [dmRuns EXCEPT ![r].cancelled = TRUE, ![r].hardLimit = TRUE]
    /\ UNCHANGED <<dmPc, dmStdin, dmWorkers, dmRuntime, dmLines, dmCmd, dmTree, dmCancel, dmLog>>
    /\ UNCHANGED dmRest

\* A mutant of closeJobs: the channel is left open.
closeJobs_Never(closed) == closed

\* defer close(jobs) of the crawl goroutine.
closeJobs(closed) == TRUE

\* A mutant of afterSkip: an entry that is passed over ends the walk.
afterSkip_Abort(walk, n) == n + 1

\* The entry WalkDir calls the callback on after one that returned nil
\* without sending: an entry reported with an error, a directory, a file
\* of another extension.  The walk has n entries.
afterSkip(walk, n) == walk + 1

\* The crawl goroutine of run r.  At "check" the WalkDir callback tests
\* ctx.Err(), the error, the kind and the extension of the entry; at "send"
\* it is at its select, which takes either case that is ready: the send
\* when jobs has room, <-ctx.Done() when the context is cancelled.  After
\* the last entry WalkDir returns and jobs is closed.
Walk(r) ==
    /\ DmRunning /\ dmRuns[r].started /\ ~dmRuns[r].closed
    /\ LET run == dmRuns[r]
           n == Len(dmTree)
       IN IF run.walk > n
          THEN /\ closeJobs(run.closed) # run.closed
               /\ dmRuns' = [dmRuns EXCEPT ![r].closed = closeJobs(run.closed)]
          ELSE LET e == dmTree[run.walk]
                   candidate == e.kind = "file" /\ ToLower(Ext(e.name)) \in daemonSupportedExt
               IN IF run.walkPc = "check"
                  THEN dmRuns' = [dmRuns EXCEPT
                          ![r].walk = IF run.cancelled THEN n + 1
                                      ELSE IF candidate THEN run.walk
                                      ELSE afterSkip(run.walk, n),
                          ![r].walkPc = IF ~run.cancelled /\ candidate THEN "send" ELSE "check"]
                  ELSE \/ /\ Len(run.jobs) < workersOf(dmWorkers, dmRuntime) * JobsPerWorker
                          /\ dmRuns' = [dmRuns EXCEPT ![r].walk = run.walk + 1,
                                                      ![r].walkPc = "check",
                                                      ![r].jobs = Append(run.jobs, run.walk)]
                       \/ /\ run.cancelled
                          /\ dmRuns' = [dmRuns EXCEPT ![r].walk = n + 1,
                                                      ![r].walkPc = "check"]
    /\ UNCHANGED <<dmPc, dmStdin, dmWorkers, dmRuntime, dmLines, dmCmd, dmTree, dmCancel, dmLog>>
    /\ UNCHANGED dmRest

\* A mutant of recvJobs: the path a worker receives stays in the channel.
recvJobs_Peek(jobs) == jobs

\* What a receive leaves in the channel jobs.
recvJobs(jobs) == Tail(jobs)

\* Worker i of run r at "for p := range jobs": it receives a path, or
\* returns when the channel is closed and empty.
WorkerRecv(r, i) ==
    /\ DmRunning /\ dmRuns[r].started /\ dmRuns[r].w[i].pc = "recv"
    /\ LET run == dmRuns[r] IN
       IF run.jobs # <<>>
       THEN dmRuns' = [dmRuns EXCEPT ![r].jobs = recvJobs(run.jobs),
                                     ![r].taken[Head(run.jobs)] = @ + 1,
                                     ![r].w[i] = [WorkerAt("ctx") EXCEPT
                                                     !.job = Head(run.jobs)]]
       ELSE /\ run.closed
            /\ dmRuns' = [dmRuns EXCEPT ![r].w[i] = WorkerAt("exit")]
    /\ UNCHANGED <<dmPc, dmStdin, dmWorkers, dmRuntime, dmLines, dmCmd, dmTree, dmCancel, dmLog>>
    /\ UNCHANGED dmRest

\* Worker i of run r, a path in hand, at the test of ctx.Err() that opens
\* the loop body: it returns when the context is cancelled by now, the
\* path it received unevaluated, and goes on to the terms otherwise.
WorkerCtxErr(r, i) ==
    /\ DmRunning /\ dmRuns[r].started /\ dmRuns[r].w[i].pc = "ctx"
    /\ LET run == dmRuns[r] IN
       dmRuns' = [dmRuns EXCEPT ![r].w[i] =
                     IF run.cancelled THEN WorkerAt("exit")
                     ELSE [run.w[i] EXCEPT !.pc = "match", !.term = 1]]
    /\ UNCHANGED <<dmPc, dmStdin, dmWorkers, dmRuntime, dmLines, dmCmd, dmTree, dmCancel, dmLog>>
    /\ UNCHANGED dmRest

\* Worker i of run r goes once round the per-term loop of its job.  A
\* content search that runs while the context is cancelled may see it or
\* not.  A rejected file, or one that ends the loop without a snippet, is
\* passed over ("continue"); otherwise the worker goes on to the next term
\* and, after the last, to the emit.
WorkerMatch(r, i) ==
    /\ DmRunning /\ dmRuns[r].started /\ dmRuns[r].w[i].pc = "match"
    /\ LET run == dmRuns[r]
           w == run.w[i]
           f == w.job
       IN \E ctxErr \in IF run.cancelled THEN BOOLEAN ELSE {FALSE} :
          \E m \in {MatchTerm(dmTree[f].name, dmTree[f].content, run.terms[w.term],
                              run.contextLen, run.maxSnips, run.maxTotal, ctxErr,
                              w.snipsOut)} :
          \E w2 \in {[w EXCEPT !.snipsOut = m.snipsOut,
                               !.searched = IF m.err = "name" THEN @ ELSE Append(@, w.term),
                               !.errs = IF m.err = "name" THEN @ ELSE Append(@, m.err)]} :
            IF m.reject \/ (w.term = Len(run.terms) /\ w2.snipsOut = <<>>)
            THEN /\ dmLog' = [kind |-> "skip", run |-> r, QueryID |-> run.QueryID,
                              terms |-> run.terms, file |-> f, snips |-> <<>>,
                              ctxErr |-> \E k \in 1..Len(w2.errs) : w2.errs[k] = "canceled",
                              hardLimit |-> run.hardLimit, searched |-> w2.searched,
                              errs |-> w2.errs]
                 /\ dmRuns' = [dmRuns EXCEPT ![r].w[i] = WorkerAt("recv"),
                                             ![r].evals[f] = @ + 1]
            ELSE /\ dmRuns' = [dmRuns EXCEPT ![r].w[i] =
                                  IF w.term = Len(run.terms)
                                  THEN [w2 EXCEPT !.pc = "emit"]
                                  ELSE [w2 EXCEPT !.term = w.term + 1]]
                 /\ UNCHANGED dmLog
    /\ UNCHANGED <<dmPc, dmStdin, dmWorkers, dmRuntime, dmLines, dmCmd, dmTree, dmCancel>>
    /\ UNCHANGED dmRest

\* Worker i of run r, every term matched: os.Stat and emit of the result
\* event, under outMu; then back to jobs.
WorkerEmit(r, i) ==
    /\ DmRunning /\ dmRuns[r].started /\ dmRuns[r].w[i].pc = "emit"
    /\ LET run == dmRuns[r]
           w == run.w[i]
       IN /\ dmLog' = [kind |-> "result", run |-> r, QueryID |-> run.QueryID,
                       terms |-> run.terms, file |-> w.job, snips |-> w.snipsOut,
                       ctxErr |-> FALSE, hardLimit |-> run.hardLimit,
                       searched |-> w.searched, errs |-> w.errs]
          /\ dmRuns' = [dmRuns EXCEPT ![r].w[i] = WorkerAt("recv"),
                                      ![r].evals[w.job] = @ + 1]
    /\ UNCHANGED <<dmPc, dmStdin, dmWorkers, dmRuntime, dmLines, dmCmd, dmTree, dmCancel>>
    /\ UNCHANGED dmRest

\* A mutant of EmitDone: done is emitted without wg.Wait().
EmitDone_NoWait(r) ==
    /\ DmRunning /\ dmRuns[r].started /\ dmRuns[r].done = 0
    /\ dmRuns' = [dmRuns EXCEPT ![r].done = dmRuns[r].done + 1]
    /\ dmLog' = [NoLog EXCEPT !.kind = "done", !.run = r, !.QueryID = dmRuns[r].QueryID,
                              !.hardLimit = dmRuns[r].hardLimit]
    /\ UNCHANGED <<dmPc, dmStdin, dmWorkers, dmRuntime, dmLines, dmCmd, dmTree, dmCancel>>
    /\ UNCHANGED dmRest

\* wg.Wait() of run r returns: done is emitted.
EmitDone(r) ==
    /\ DmRunning /\ dmRuns[r].started /\ dmRuns[r].done = 0
    /\ \A i \in WorkerIds : dmRuns[r].w[i].pc \in {"exit", "none"}
    /\ dmRuns' = [dmRuns EXCEPT ![r].done = dmRuns[r].done + 1]
    /\ dmLog' = [NoLog EXCEPT !.kind = "done", !.run = r, !.QueryID = dmRuns[r].QueryID,
                              !.hardLimit = dmRuns[r].hardLimit]
    /\ UNCHANGED <<dmPc, dmStdin, dmWorkers, dmRuntime, dmLines, dmCmd, dmTree, dmCancel>>
    /\ UNCHANGED dmRest

----
\* ======================= harness of the daemon ===========================

TxtName(stem) == stem \o <<".", "t", "x", "t">>
Readable(text) == [ok |-> TRUE, text |-> text]
Unreadable == [ok |-> FALSE, text |-> <<>>]

\* Entries WalkDir may report, in the lexical order in which it reports
\* them: text files whose names and contents match the terms in different
\* ways (the second A.txt lies in the directory a), a file of another
\* extension, a file that cannot be opened.
WalkOrder ==
    <<[kind |-> "file", name |-> TxtName(<<"A">>), content |-> Readable(<<"b", "a", "b">>)],
      [kind |-> "dir", name |-> <<"a">>, content |-> Unreadable],
      [kind |-> "file", name |-> TxtName(<<"A">>), content |-> Readable(<<"b">>)],
      [kind |-> "file", name |-> <<"a", ".", "e", "x", "e">>, content |-> Readable(<<"a">>)],
      [kind |-> "file", name |-> TxtName(<<"b">>), content |-> Unreadable],
      [kind |-> "file", name |-> <<"c", ".", "M", "d">>, content |-> Readable(<<"a", "b">>)],
      [kind |-> "file", name |-> TxtName(<<"c">>), content |-> Readable(<<"a">>)]>>

\* The entries of WalkOrder at the places S, in that order.
RECURSIVE Picked(_)
Picked(S) ==
    IF S = {} THEN <<>> ELSE <<WalkOrder[SetMin(S)]>> \o Picked(S \ {SetMin(S)})

MaxTree == 2

\* A tree with more candidates than a run has workers, so that the workers
\* can all return while a path is in jobs.
CrowdedTree == Picked({5, 6, 7})

\* The trees of up to MaxTree entries, and the crowded one.
Trees ==
    {Picked(S) : S \in {T \in SUBSET (1..Len(WalkOrder)) :
                            Cardinality(T) \in 1..MaxTree}} \cup {CrowdedTree}

\* The daemon when RunDaemon enters its main loop.
DmStart ==
    /\ dmPc = "loop"
    /\ dmLines = 0
    /\ dmCmd = NoLine
    /\ dmRuns = [r \in RunIds |-> NoRun]
    /\ dmCancel = 0
    /\ dmLog = NoLog

\* One line of stdin to each of the daemons, over every tree.
DmInit ==
    DmStart /\ dmStdin = [lines |-> 1, cmds |-> DaemonCmds]
            /\ \E h \in DaemonHosts : OnHost(h)
            /\ dmTree \in Trees

\* MaxLines lines of stdin, each a query of one or of two terms, to a
\* daemon started with -workers 1, over one tree: two files that go to the worker
\* behind a directory.
SessionTree ==
    <<[kind |-> "dir", name |-> <<"a">>, content |-> Unreadable],
      [kind |-> "file", name |-> TxtName(<<"A">>), content |-> Readable(<<"b", "a", "b">>)],
      [kind |-> "file", name |-> TxtName(<<"b">>), content |-> Unreadable]>>
SessionCmds ==
    {Cmd(<<"a">>, <<>>, <<>>, 1, 0),
     Cmd(<<" ", "b">>, <<"a">>, <<>>, 1, 1)}
DmInitSession ==
    DmStart /\ dmStdin = [lines |-> MaxLines, cmds |-> SessionCmds]
            /\ OnHost(Host(1, 1, "amd64"))
            /\ dmTree = SessionTree

\* MaxLines lines of stdin from a client that sends a one-term query or an
\* empty one, to a daemon started without -workers on a host of one CPU
\* (one worker), over a root that holds one matching file.
ProtocolCmds ==
    {Cmd(<<"a">>, <<>>, <<>>, 1, 0),
     Cmd(<<"\t">>, <<>>, <<"U+3000", " ">>, 1, 0)}
ProtocolTree ==
    <<[kind |-> "file", name |-> TxtName(<<"c">>), content |-> Readable(<<"b", "a", "b">>)]>>
DmInitProtocol ==
    DmStart /\ dmStdin = [lines |-> MaxLines, cmds |-> ProtocolCmds]
            /\ OnHost(Host(0, 1, "amd64"))
            /\ dmTree = ProtocolTree

\* One line of stdin from a client that asks for many snippets, over files
\* with more occurrences of the term than the ceiling of maxTotal; the
\* daemon is a 386 build started without -workers (two workers).
CapCmds ==
    {Cmd(<<"a">>, <<>>, <<>>, 0, MaxTotalCap + 1),
     Cmd(<<"a">>, <<"a">>, <<"a">>, 0, 5),
     Cmd(<<"a">>, <<"a">>, <<>>, 0, 0),
     Cmd(<<"a">>, <<"b">>, <<>>, 0, MaxTotalCap)}
CapEntries ==
    {[kind |-> "file", name |-> TxtName(<<"b">>),
      content |-> Readable([i \in 1..(MaxTotalCap + 1) |-> "a"])],
     [kind |-> "file", name |-> TxtName(<<"a">>), content |-> Readable(<<"a", "b", "a">>)]}
DmInitCap ==
    DmStart /\ dmStdin = [lines |-> 1, cmds |-> CapCmds]
            /\ OnHost(Host(0, 3, "386"))
            /\ dmTree \in SeqsOf(CapEntries, 1, 2)

\* One line of stdin with a one-term query, over trees in which entries that
\* fail (a directory that cannot be read, a file that cannot be opened) stand
\* next to a file that matches; the daemon is started with -workers 2.
ErrorCmds == {Cmd(<<"a">>, <<>>, <<>>, 1, 0)}
ErrorEntries ==
    {[kind |-> "err", name |-> <<"b">>, content |-> Unreadable],
     [kind |-> "file", name |-> TxtName(<<"b">>), content |-> Unreadable],
     [kind |-> "file", name |-> TxtName(<<"c">>), content |-> Readable(<<"a">>)]}
DmInitErrors ==
    DmStart /\ dmStdin = [lines |-> 1, cmds |-> ErrorCmds]
            /\ OnHost(Host(2, 1, "amd64"))
            /\ dmTree \in SeqsOf(ErrorEntries, MaxTree, MaxTree)

DmNext ==
    \/ ReadSetQuery
    \/ StartSearch
    \/ ReadOther
    \/ ReadEOF
    \/ \E r \in RunIds : MonitorCancel(r)
    \/ \E r \in RunIds : Walk(r)
    \/ \E r \in RunIds : EmitDone(r)
    \/ \E r \in RunIds, i \in WorkerIds : WorkerRecv(r, i)
    \/ \E r \in RunIds, i \in WorkerIds : WorkerCtxErr(r, i)
    \/ \E r \in RunIds, i \in WorkerIds : WorkerMatch(r, i)
    \/ \E r \in RunIds, i \in WorkerIds : WorkerEmit(r, i)

\* Every goroutine that can take a step eventually takes one: the Go
\* scheduler starves none.  Nothing is assumed of stdin or of the monitor.
DmFairness ==
    /\ WF_vars(StartSearch)
    /\ \A r \in RunIds :
          /\ WF_vars(Walk(r))
          /\ WF_vars(EmitDone(r))
          /\ \A i \in WorkerIds :
                WF_vars(WorkerRecv(r, i) \/ WorkerCtxErr(r, i) \/ WorkerMatch(r, i)
                        \/ WorkerEmit(r, i))

\* A weaker condition, enough for a single run: while some goroutine of a
\* run can take a step, one of them eventually does.
RunStep(r) ==
    \/ Walk(r)
    \/ EmitDone(r)
    \/ \E i \in WorkerIds : \/ WorkerRecv(r, i) \/ WorkerCtxErr(r, i)
                            \/ WorkerMatch(r, i) \/ WorkerEmit(r, i)
DmProgress == WF_vars(\E r \in RunIds : RunStep(r))

DmIdle ==
    /\ dmPc = "exited" /\ dmStdin = [lines |-> 0, cmds |-> {}] /\ dmWorkers = 0
    /\ dmRuntime = [NumCPU |-> 0, GOARCH |-> ""]
    /\ dmLines = 0
    /\ dmCmd = NoLine /\ dmTree = <<>>
    /\ dmRuns = [r \in RunIds |-> NoRun] /\ dmCancel = 0 /\ dmLog = NoLog

----
\* ======================= claims on the daemon ============================

\* Term t occurs in the base name of entry e, letter case set aside.
NameHit(e, t) == Occurrences(ToLower(e.name), ToLower(t)) # {}

\* Term t occurs in the content of entry e.
ContentHit(e, t) == e.content.ok /\ Occurrences(e.content.text, t) # {}

\* Every term of the event in dmLog is matched by its file, in the name or in
\* the content.
LogFileSatisfiesAll ==
    \A k \in 1..Len(dmLog.terms) :
       NameHit(dmTree[dmLog.file], dmLog.terms[k]) \/ ContentHit(dmTree[dmLog.file], dmLog.terms[k])

\* C2 (as stated): every accepted setQuery with a term is followed by its
\* done event, and no run emits done twice.
C2_ExactlyOneDone ==
    /\ \A r \in RunIds : dmRuns[r].started ~> (dmRuns[r].done = 1)
    /\ [](\A r \in RunIds : dmRuns[r].done <= 1)

\* C3: a result event is for a file in which each of the 1..3 terms of the
\* query is matched, in the base name or in the content.
C3_Conjunctive ==
    dmLog.kind = "result"
    => /\ Len(dmLog.terms) \in 1..3
       /\ LogFileSatisfiesAll

\* C3 witness: a result for two terms, one matched in the content only and
\* one in the name only.
C3_Witness ==
    /\ dmLog.kind = "result" /\ Len(dmLog.terms) = 2
    /\ \E k \in 1..2 : /\ ~NameHit(dmTree[dmLog.file], dmLog.terms[k])
                       /\ ContentHit(dmTree[dmLog.file], dmLog.terms[k])
    /\ \E k \in 1..2 : /\ NameHit(dmTree[dmLog.file], dmLog.terms[k])
                       /\ ~ContentHit(dmTree[dmLog.file], dmLog.terms[k])

\* C4 (as stated): a file whose every term is matched, in the name or in the
\* content, is emitted: a worker that was not cancelled passes over a file
\* only when some term is matched by neither.
C4_NameHitEmitted ==
    (dmLog.kind = "skip" /\ ~dmLog.ctxErr) => ~LogFileSatisfiesAll

\* C16 (as stated): once the monitor of a run has found the allocation above
\* the ceiling and cancelled the run's context, no result event of that run
\* is emitted any more (its done event follows).
C16_NoResultAfterHardLimit ==
    dmLog.kind = "result" => ~dmLog.hardLimit

\* A step that reads one more line of stdin.
ReadsLine == dmLines' = dmLines + 1

\* C18: reading a setQuery whose three terms are empty after trimming cancels
\* the context of the run in progress; startSearch then emits the one event
\* status "idle" with the command's queryId and starts no crawl or worker;
\* no done event is ever emitted for a run that was not started.
C18_EmptyGoesIdle ==
    /\ [][(ReadsLine /\ dmCmd'.kind = "setQuery" /\ TermsOf(dmCmd'.cmd) = <<>>)
          => /\ dmPc' = "start" /\ dmLog' = dmLog
             /\ dmCmd'.cmd.QueryID = dmLines'
             /\ dmCancel # 0 => dmRuns'[dmCancel].cancelled
             /\ \A r \in RunIds :
                   /\ dmRuns'[r].started = dmRuns[r].started
                   /\ dmRuns'[r].w = dmRuns[r].w
                   /\ dmRuns'[r].walk = dmRuns[r].walk
                   /\ dmRuns'[r].done = dmRuns[r].done]_vars
    /\ [][(dmPc = "start" /\ dmPc' # "start" /\ TermsOf(dmCmd.cmd) = <<>>)
          => /\ dmPc' = "loop"
             /\ dmLog' = [NoLog EXCEPT !.kind = "idle", !.QueryID = dmCmd.cmd.QueryID]
             /\ dmRuns' = dmRuns
             /\ ~dmRuns'[dmLines].started]_vars
    /\ [][(dmLog' # dmLog /\ dmLog'.kind = "idle")
          => dmPc = "start" /\ dmLog'.QueryID = dmLines /\ TermsOf(dmCmd.cmd) = <<>>]_vars
    /\ [](\A r \in RunIds : ~dmRuns[r].started => dmRuns[r].done = 0)
    /\ [](dmLog.kind = "done" => dmRuns[dmLog.run].started /\ dmLog.QueryID = dmLog.run)

\* C18 witness: the second line was an empty setQuery; the run of the first
\* line is cancelled and no run was started for the second.
C18_Witness ==
    /\ dmPc = "loop" /\ dmLines = 2
    /\ dmCmd.kind = "setQuery" /\ TermsOf(dmCmd.cmd) = <<>>
    /\ dmLog.kind = "idle" /\ dmLog.QueryID = 2
    /\ dmRuns[1].started /\ dmRuns[1].cancelled /\ dmRuns[1].done = 0
    /\ ~dmRuns[2].started

\* C18 witness: the main goroutine is between the cancellation and its
\* emit of "idle"; the cancelled run of the first line has emitted done
\* meanwhile.
C18_WitnessDoneFirst ==
    /\ dmPc = "start" /\ dmLines = 2 /\ TermsOf(dmCmd.cmd) = <<>>
    /\ dmLog.kind = "done" /\ dmLog.run = 1 /\ dmRuns[1].cancelled

\* C19: reading a line that is not JSON, or a command other than setQuery,
\* emits nothing, leaves every run and its context as they were, and the
\* main loop goes on reading.
C19_ProtocolErrorsDropped ==
    [][(ReadsLine /\ dmCmd'.kind \in {"not JSON", "other cmd"})
       => /\ dmLog' = dmLog
          /\ dmRuns' = dmRuns
          /\ dmCancel' = dmCancel
          /\ dmPc' = "loop"]_vars

\* C19 witness: a line that is not JSON was read while the run of the first
\* line was at work; it still is.
C19_Witness ==
    /\ dmPc = "loop" /\ dmLines = 2 /\ dmCmd.kind = "not JSON"
    /\ dmRuns[1].started /\ ~dmRuns[1].cancelled /\ dmCancel = 1
    /\ \E i \in WorkerIds : dmRuns[1].w[i].pc = "match"

\* C19 witness: the daemon went on reading: the line after a dropped one
\* started a run.
C19_WitnessNextLine ==
    /\ dmPc = "loop" /\ dmLines = 2 /\ dmCmd.kind = "setQuery"
    /\ ~dmRuns[1].started /\ dmRuns[2].started

\* maxSnippets as the command of the event's run asked for it, a value <= 0
\* being replaced by the default (stdin carries one line here).
RequestedSnippets ==
    IF dmCmd.cmd.MaxSnippets <= 0 THEN DefaultMaxSnips ELSE dmCmd.cmd.MaxSnippets

\* C20 (as stated): a result event carries at most
\* min(maxSnippets * termCount, 12) snippets, for 1..3 terms.
C20_SnippetCap ==
    dmLog.kind = "result"
    => Len(dmLog.snips) <= Min(RequestedSnippets * Len(dmLog.terms), MaxTotalCap)

\* Snippet s shows term t between the marks, letter case set aside; named
\* tells whether s has to carry the tag of a snippet taken from the file name.
TermSnippet(s, t, named) ==
    /\ s # <<>>
    /\ (Head(s) = NameTag) = named
    /\ Contains(ToLower(s), <<OpenMark>> \o ToLower(t) \o <<CloseMark>>)

\* C21 (as stated): a result event carries, for each term of the query, at
\* least one snippet of that term: a name-tagged one when the term is matched
\* in the base name, a content snippet otherwise.
C21_SnippetPerTerm ==
    dmLog.kind = "result"
    => \A k \in 1..Len(dmLog.terms) :
          \E j \in 1..Len(dmLog.snips) :
             TermSnippet(dmLog.snips[j], dmLog.terms[k],
                         matchedInName(dmTree[dmLog.file].name, dmLog.terms[k]))

\* A step in which the crawl of run r puts a path on jobs.
Enqueues(r) == Len(dmRuns'[r].jobs) > Len(dmRuns[r].jobs)

\* C22 (as stated): once the context of a run is cancelled, its crawl puts no
\* further candidate path on jobs.
C22_CrawlStops ==
    [][\A r \in RunIds : dmRuns[r].cancelled => ~Enqueues(r)]_vars

\* C22, what the crawl does keep: a callback that starts after the
\* cancellation enqueues nothing and ends the walk, so that the one path a
\* cancelled crawl can still enqueue is the path of the callback that was
\* past its ctx.Err() test when the context was cancelled (while the daemon
\* runs).
C22_OneLateEnqueue ==
    [][\A r \in RunIds :
          dmPc' # "exited" =>
          /\ (dmRuns[r].cancelled /\ dmRuns[r].walkPc = "check") => ~Enqueues(r)
          /\ (dmRuns[r].cancelled /\ Enqueues(r))
                => dmRuns'[r].cancelled /\ dmRuns'[r].walkPc = "check"
          /\ (dmRuns[r].cancelled /\ dmRuns[r].walkPc = "check"
                /\ dmRuns'[r].walk # dmRuns[r].walk)
                => dmRuns'[r].walk = Len(dmTree) + 1]_vars

\* Entry f of the tree is a candidate: a file with a supported extension.
IsCandidate(f) ==
    dmTree[f].kind = "file" /\ ToLower(Ext(dmTree[f].name)) \in daemonSupportedExt

\* The places of jobs that hold entry f, and the workers of run r that hold
\* it in their loop body.
InJobs(r, f) == Cardinality({k \in 1..Len(dmRuns[r].jobs) : dmRuns[r].jobs[k] = f})
Holders(r, f) ==
    Cardinality({i \in WorkerIds : dmRuns[r].w[i].pc \in {"ctx", "match", "emit"}
                                    /\ dmRuns[r].w[i].job = f})

\* Entry f was put on jobs by the crawl of run r.
Enqueued(r, f) == InJobs(r, f) + dmRuns[r].taken[f] > 0

\* C23 (as stated): in a run, only candidates are enqueued, each at most
\* once; an enqueued path is received by exactly one worker (by the time
\* done is emitted, when every worker has returned) and evaluated at most
\* once, by that worker; when done is emitted by a run that was not
\* cancelled every candidate has been evaluated exactly once.
C23_ExactlyOnce_AnyRun ==
    \A r \in RunIds :
       (DmRunning /\ dmRuns[r].started) =>
          \A f \in 1..Len(dmTree) :
             LET run == dmRuns[r] IN
             /\ run.taken[f] <= 1
             /\ InJobs(r, f) + run.taken[f] <= 1
             /\ run.evals[f] + Holders(r, f) <= run.taken[f]
             /\ Enqueued(r, f) => IsCandidate(f)
             /\ (Enqueued(r, f) /\ run.done = 1) => run.taken[f] = 1
             /\ (~run.cancelled /\ IsCandidate(f) /\ run.done = 1) => run.evals[f] = 1

\* C23 (amended): in a run, only candidates are enqueued, each at most
\* once; an enqueued path is received by at most one worker and evaluated
\* at most once, by that worker; a path is left in jobs, or received and
\* not evaluated, only in a cancelled run; while the run is not cancelled
\* no path the crawl has passed is lost, and when done is emitted by a run
\* that was not cancelled every candidate has been received by one worker
\* and evaluated exactly once.
C23_ExactlyOnce ==
    \A r \in RunIds :
       (DmRunning /\ dmRuns[r].started) =>
          \A f \in 1..Len(dmTree) :
             LET run == dmRuns[r] IN
             /\ run.taken[f] <= 1
             /\ InJobs(r, f) + run.taken[f] <= 1
             /\ run.evals[f] + Holders(r, f) <= run.taken[f]
             /\ Enqueued(r, f) => IsCandidate(f)
             /\ (run.evals[f] + Holders(r, f) < run.taken[f]) => run.cancelled
             /\ (InJobs(r, f) = 1 /\ run.done = 1) => run.cancelled
             /\ (~run.cancelled /\ IsCandidate(f) /\ f < run.walk)
                   => InJobs(r, f) + Holders(r, f) + run.evals[f] = 1
             /\ (~run.cancelled /\ IsCandidate(f) /\ run.done = 1)
                   => run.taken[f] = 1 /\ run.evals[f] = 1

\* C23 witness: done was emitted by a run that was not cancelled, over a tree
\* with two candidates, each evaluated once.
C23_Witness ==
    /\ dmPc = "loop" /\ dmLog.kind = "done"
    /\ dmRuns[dmLog.run].done = 1 /\ ~dmRuns[dmLog.run].cancelled
    /\ Cardinality({f \in 1..Len(dmTree) : IsCandidate(f)}) >= 2
    /\ \A f \in 1..Len(dmTree) : IsCandidate(f) => dmRuns[dmLog.run].evals[f] = 1

\* C23 witness: a worker received a path, the run was cancelled before the
\* worker tested ctx.Err(), and the worker returned without evaluating the
\* path; a path queued behind it was evaluated by another worker.
C23_WitnessDropped ==
    \E r \in RunIds : \E f, g \in 1..Len(dmTree) :
       /\ dmPc = "loop" /\ dmRuns[r].started /\ dmRuns[r].cancelled
       /\ dmRuns[r].taken[f] = 1 /\ dmRuns[r].evals[f] = 0 /\ Holders(r, f) = 0
       /\ f < g /\ dmRuns[r].evals[g] = 1

\* C23 witness: done was emitted by a cancelled run whose workers returned
\* while a path was still in jobs: no worker received it.
C23_WitnessLeftQueued ==
    \E r \in RunIds : \E f \in 1..Len(dmTree) :
       /\ dmPc = "loop" /\ dmRuns[r].started /\ dmRuns[r].cancelled
       /\ dmRuns[r].done = 1 /\ InJobs(r, f) = 1 /\ dmRuns[r].taken[f] = 0

\* C27: a worker starts the content searches of a file in the order of the
\* terms, none for a term that is matched in the base name, and none after
\* the first content search that failed or found nothing: every search but
\* the last one started had found the term.
C27_ShortCircuit ==
    dmLog.kind \in {"result", "skip"} =>
       LET e == dmTree[dmLog.file]
           S == dmLog.searched
       IN /\ \A k \in 1..Len(S) :
                /\ S[k] \in 1..Len(dmLog.terms)
                /\ ~NameHit(e, dmLog.terms[S[k]])
          /\ Len(dmLog.errs) = Len(S)
          /\ \A k \in 1..(Len(S) - 1) :
                /\ S[k] < S[k + 1]
                /\ dmLog.errs[k] = "nil"
                /\ ContentHit(e, dmLog.terms[S[k]])

\* C27 witness: the first term was searched in the content and not found;
\* the second, which the content holds and the name does not, was never
\* searched.
C27_Witness ==
    /\ dmLog.kind = "skip" /\ ~dmLog.ctxErr
    /\ Len(dmLog.terms) = 2 /\ dmLog.searched = <<1>>
    /\ ~ContentHit(dmTree[dmLog.file], dmLog.terms[1])
    /\ ~NameHit(dmTree[dmLog.file], dmLog.terms[2])
    /\ ContentHit(dmTree[dmLog.file], dmLog.terms[2])

\* C27 witness: the context was cancelled between the content searches of
\* two terms: the first found its term, the second returned the error of
\* the context and the file was passed over.
C27_WitnessCancelled ==
    /\ dmLog.kind = "skip" /\ dmLog.searched = <<1, 2>>
    /\ dmLog.errs = <<"nil", "canceled">>
    /\ ContentHit(dmTree[dmLog.file], dmLog.terms[1])
    /\ ContentHit(dmTree[dmLog.file], dmLog.terms[2])

\* C27 witness: a result for two terms; the one matched in the name was not
\* searched in the content, which holds it too.
C27_WitnessName ==
    /\ dmLog.kind = "result" /\ Len(dmLog.terms) = 2 /\ dmLog.searched = <<1>>
    /\ NameHit(dmTree[dmLog.file], dmLog.terms[2])
    /\ ContentHit(dmTree[dmLog.file], dmLog.terms[2])

\* Entry f of the tree fails: WalkDir reports it with an error, or it is a
\* candidate that cannot be opened.
FailingEntry(f) ==
    \/ dmTree[f].kind = "err"
    \/ IsCandidate(f) /\ ~dmTree[f].content.ok

\* C25: a failing entry aborts nothing.  The crawl goes on to the next entry
\* after an entry reported with an error, a worker goes back to jobs after a
\* file it cannot open, every candidate has been evaluated once when a run
\* that was not cancelled emits done, and the run that is started (stdin
\* carries one line here) emits done unless it is cancelled or the daemon
\* ends.
C25_FailuresSkipped ==
    /\ [][\A r \in RunIds :
            (dmRuns[r].started /\ dmRuns[r].walk <= Len(dmTree)
               /\ dmTree[dmRuns[r].walk].kind = "err"
               /\ ~dmRuns[r].cancelled /\ dmRuns'[r].walk # dmRuns[r].walk
               /\ dmPc' # "exited")
            => /\ dmRuns'[r].walk = dmRuns[r].walk + 1
               /\ dmRuns'[r].closed = dmRuns[r].closed
               /\ dmRuns'[r].jobs = dmRuns[r].jobs]_vars
    /\ [][(dmLog' # dmLog /\ dmLog'.kind = "skip")
            => /\ dmRuns'[dmLog'.run].jobs = dmRuns[dmLog'.run].jobs
               /\ dmRuns'[dmLog'.run].closed = dmRuns[dmLog'.run].closed
               /\ dmRuns'[dmLog'.run].cancelled = dmRuns[dmLog'.run].cancelled
               /\ dmRuns'[dmLog'.run].done = dmRuns[dmLog'.run].done
               /\ \E i \in WorkerIds :
                     /\ dmRuns[dmLog'.run].w[i].pc = "match"
                     /\ dmRuns[dmLog'.run].w[i].job = dmLog'.file
                     /\ dmRuns'[dmLog'.run].w[i] = WorkerAt("recv")]_vars
    /\ [](\A r \in RunIds :
            (DmRunning /\ dmRuns[r].done = 1 /\ ~dmRuns[r].cancelled)
            => \A f \in 1..Len(dmTree) : IsCandidate(f) => dmRuns[r].evals[f] = 1)
    /\ dmRuns[1].started
          ~> (dmRuns[1].done = 1 \/ dmRuns[1].cancelled \/ dmPc = "exited")

\* C25 witness: done was emitted by a run that was not cancelled, over a tree
\* in which a failing entry comes before a file that was evaluated.
C25_Witness ==
    /\ dmPc = "loop" /\ dmLog.kind = "done" /\ ~dmRuns[dmLog.run].cancelled
    /\ \E f, g \in 1..Len(dmTree) :
          /\ f < g /\ FailingEntry(f) /\ dmTree[f].kind = "err"
          /\ IsCandidate(g) /\ dmTree[g].content.ok /\ dmRuns[dmLog.run].evals[g] = 1

\* C25 witness: the same behind a file that could not be opened.
C25_WitnessOpen ==
    /\ dmPc = "loop" /\ dmLog.kind = "done" /\ ~dmRuns[dmLog.run].cancelled
    /\ \E f, g \in 1..Len(dmTree) :
          /\ f < g /\ FailingEntry(f) /\ dmTree[f].kind = "file"
          /\ dmRuns[dmLog.run].evals[f] = 1
          /\ IsCandidate(g) /\ dmTree[g].content.ok /\ dmRuns[dmLog.run].evals[g] = 1

\* The runs whose context is not cancelled.
LiveRuns == {r \in RunIds : dmRuns[r].started /\ ~dmRuns[r].cancelled}

\* C26: while the daemon runs at most one run has a context that is not
\* cancelled, and it is the run whose cancel function the session holds;
\* a step that starts a run leaves every earlier run cancelled.
C26_OneLiveRun ==
    /\ [](DmRunning => /\ Cardinality(LiveRuns) <= 1
                       /\ \A r \in LiveRuns : r = dmCancel)
    /\ [][\A r \in RunIds :
            (~dmRuns[r].started /\ dmRuns'[r].started)
            => \A q \in RunIds \ {r} : dmRuns'[q].started => dmRuns'[q].cancelled]_vars

\* C26 witness: the second setQuery started a run while a worker of the
\* first was in its loop body; the first run is cancelled, the second is not.
C26_Witness ==
    /\ dmPc = "loop" /\ dmLines = 2 /\ dmCmd.kind = "setQuery"
    /\ dmRuns[1].started /\ dmRuns[1].cancelled /\ ~dmRuns[1].hardLimit
    /\ \E i \in WorkerIds : dmRuns[1].w[i].pc = "match"
    /\ dmRuns[2].started /\ ~dmRuns[2].cancelled /\ dmCancel = 2

\* C37: a result event carries the queryId of a run whose done event has
\* not been emitted (query ids are line numbers here, each used once): the
\* event just emitted is never a result that comes after the done of the
\* same queryId.
C37_DoneIsTerminal ==
    dmLog.kind = "result"
    => \A r \in RunIds :
          (dmRuns[r].started /\ dmRuns[r].QueryID = dmLog.QueryID) => dmRuns[r].done = 0

\* C37 witness: a worker emits a result of a cancelled run after the other
\* worker has returned; done has waited for it.
C37_Witness ==
    /\ dmLog.kind = "result" /\ dmRuns[dmLog.run].cancelled
    /\ dmRuns[dmLog.run].QueryID = dmLog.QueryID
    /\ \E i \in WorkerIds : dmRuns[dmLog.run].w[i].pc = "exit"
    /\ dmRuns[dmLog.run].done = 0

\* C37 witness: done is emitted for a run of which a result was emitted.
C37_WitnessDone ==
    /\ dmLog.kind = "done" /\ dmRuns[dmLog.run].done = 1
    /\ \E f \in DOMAIN dmRuns[dmLog.run].evals : dmRuns[dmLog.run].evals[f] > 0
    /\ \A i \in WorkerIds : dmRuns[dmLog.run].w[i].pc = "exit"

----
\* ======================= extract: the pure-Go PDF fallback policy =========
\* pdfPureGoFallbackEnabled decides whether a PDF the system text filter
\* (IFilter) could not read is parsed by the pure-Go reader.

\* Calls of pdfPureGoFallbackEnabled in one process.
MaxPolicyCalls == 3

\* The values of OFIND_PDF_PUREGO that switch the fallback on.
EnableWords ==
    {<<"1">>, <<"t", "r", "u", "e">>, <<"y", "e", "s">>, <<"y">>, <<"o", "n">>}

\* An environment variable: not set, or set to a value.
EnvUnset == [set |-> FALSE, value |-> <<>>]
EnvSet(v) == [set |-> TRUE, value |-> v]

\* os.Getenv
Getenv(env) == IF env.set THEN env.value ELSE <<>>

\* The call reaches pdfHasIFilterOnce.Do.
reachesProbe(goos, env) ==
    goos = "windows" /\ stringsTrimSpace(Getenv(env)) = <<>>

\* A mutant of pdfPureGoFallbackEnabled: the value is compared as it is.
pdfPureGoFallbackEnabled_Raw(goos, env, has) ==
    IF goos # "windows" THEN TRUE
    ELSE IF Getenv(env) # <<>> THEN Getenv(env) \in EnableWords
    ELSE ~has

\* pdfPureGoFallbackEnabled; has is pdfHasIFilter after pdfHasIFilterOnce.Do.
pdfPureGoFallbackEnabled(goos, env, has) ==
    IF goos # "windows" THEN TRUE
    ELSE LET v == stringsTrimSpace(Getenv(env))
         IN IF v # <<>> THEN ToLower(v) \in EnableWords
            ELSE ~has

\* A call of pdfPureGoFallbackEnabled.  The first call that reaches
\* pdfHasIFilterOnce.Do runs HasPDFIFilter and stores what it finds.
CallPolicy ==
    /\ ppCalls < MaxPolicyCalls
    /\ LET probe == reachesProbe(ppGoos, ppEnv) /\ ~ppOnce
           has == IF probe THEN ppIFilter ELSE ppHas
       IN /\ ppOnce' = (ppOnce \/ probe)
          /\ ppHas' = has
          /\ ppProbes' = ppProbes + (IF probe THEN 1 ELSE 0)
          /\ ppLast' = [env |-> ppEnv,
                        ret |-> pdfPureGoFallbackEnabled(ppGoos, ppEnv, has)]
    /\ ppCalls' = ppCalls + 1
    /\ UNCHANGED <<ppGoos, ppEnv, ppIFilter>>
    /\ UNCHANGED ppRest

\* The environment variable is set, changed or unset between two calls
\* (os.Setenv, t.Setenv).
PolicyEnvValues ==
    {EnvUnset, EnvSet(<<>>), EnvSet(<<" ", "\t">>), EnvSet(<<"1">>), EnvSet(<<"0">>),
     EnvSet(<<"o", "n">>), EnvSet(<<"O", "N">>), EnvSet(<<"\t", "Y", "e", "S", "\n">>),
     EnvSet(<<"n", "o">>)}
PolicySetenv ==
    /\ ppCalls < MaxPolicyCalls
    /\ \E env \in PolicyEnvValues \ {ppEnv} : ppEnv' = env
    /\ UNCHANGED <<ppGoos, ppIFilter, ppOnce, ppHas, ppProbes, ppCalls, ppLast>>
    /\ UNCHANGED ppRest

\* A PDF IFilter is installed or removed while the process runs.
IFilterChanges ==
    /\ ppCalls < MaxPolicyCalls
    /\ ppGoos = "windows"
    /\ ppIFilter' = ~ppIFilter
    /\ UNCHANGED <<ppGoos, ppEnv, ppOnce, ppHas, ppProbes, ppCalls, ppLast>>
    /\ UNCHANGED ppRest

NoPolicyCall == [env |-> EnvUnset, ret |-> FALSE]

\* A process at its start: pdfHasIFilter is false and its Once not done.
PpInit ==
    /\ ppGoos \in {"windows", "linux"}
    /\ ppEnv \in PolicyEnvValues
    /\ ppIFilter \in (IF ppGoos = "windows" THEN BOOLEAN ELSE {FALSE})
    /\ ppOnce = FALSE /\ ppHas = FALSE /\ ppProbes = 0 /\ ppCalls = 0
    /\ ppLast = NoPolicyCall

PpNext == CallPolicy \/ PolicySetenv \/ IFilterChanges

PpIdle ==
    /\ ppGoos = "" /\ ppEnv = EnvUnset /\ ppIFilter = FALSE /\ ppOnce = FALSE
    /\ ppHas = FALSE /\ ppProbes = 0 /\ ppCalls = 0 /\ ppLast = NoPolicyCall

\* ----- claims on the fallback policy -----

\* The probe and its Once, for every reading of the policy: HasPDFIFilter
\* runs at most once, what it found is kept, also when the system changes.
ProbeOnce ==
    /\ [](ppProbes <= 1 /\ (ppOnce <=> ppProbes = 1))
    /\ [][/\ ppProbes' # ppProbes => (~ppOnce /\ ppHas' = ppIFilter)
          /\ ppOnce => (ppOnce' /\ ppHas' = ppHas)]_vars

\* C24 (as stated): off Windows the fallback is enabled; on Windows a set
\* OFIND_PDF_PUREGO decides alone, 1/true/yes/y/on enabling and any other
\* value disabling; unset, the result is the negation of the probe, which
\* runs at most once.
C24_PolicyAsStated ==
    /\ ProbeOnce
    /\ [](ppCalls > 0 =>
            IF ppGoos # "windows" THEN ppLast.ret
            ELSE IF ppLast.env.set /\ ppLast.env.value # <<>>
            THEN ppLast.ret = (ppLast.env.value \in EnableWords)
            ELSE ppOnce /\ ppLast.ret = ~ppHas)

\* C24 (amended): on Windows the value of OFIND_PDF_PUREGO is read without
\* the white space around it; when something is left it decides alone,
\* 1/true/yes/y/on in any letter case enabling and anything else disabling;
\* when the variable is unset, empty or white space only, the result is the
\* negation of the probe.
C24_Policy ==
    /\ ProbeOnce
    /\ [](ppCalls > 0 =>
            LET v == stringsTrimSpace(ppLast.env.value) IN
            IF ppGoos # "windows" THEN ppLast.ret
            ELSE IF ppLast.env.set /\ v # <<>>
            THEN ppLast.ret = (\E w \in EnableWords : ToLower(v) = w)
            ELSE ppOnce /\ ppLast.ret = ~ppHas)

\* C24 witness: on Windows with the variable unset, a call made after the
\* IFilter disappeared still answers from the probe of an earlier call.
C24_Witness ==
    /\ ppGoos = "windows" /\ ppCalls >= 2 /\ ppLast.env = EnvUnset
    /\ ppProbes = 1 /\ ppHas /\ ~ppIFilter /\ ~ppLast.ret

\* C24 witness: the override in capitals enables the fallback although an
\* IFilter is there.
C24_WitnessOverride ==
    /\ ppGoos = "windows" /\ ppCalls >= 1 /\ ppLast.env = EnvSet(<<"O", "N">>)
    /\ ppIFilter /\ ppLast.ret

----
\* ======================= extract: the gate of the pure-Go PDF parser ======
\* pdfFindFirst, pdfFindSnippetsStream and pdfExtractText from the point where
\* the pure-Go parser is taken: the file-size ceiling, the permit of the
\* limiter, the page-count ceiling, then the pages, one after the other or,
\* in pdfExtractText with OFIND_PDF_PAGE_WORKERS > 1, by page workers.

\* File sizes and page counts of the files, and the ceilings configured with
\* OFIND_PDF_MAX_FILE_BYTES and OFIND_PDF_MAX_PAGES.
MaxPdfBytes == 2
CfgMaxFileBytes == 1
MaxPdfPages == 3
CfgMaxPages == 2

\* The page workers of pdfExtractTextParallel (OFIND_PDF_PAGE_WORKERS).
PageWorkers == 2
PageWorkerIds == 1..PageWorkers

\* pdfExtractText takes pdfExtractTextParallel and that one does not fall
\* back to the sequential loop.
Parallel == pgFn = "extract" /\ pgCfg.workers > 1 /\ pgFile.pages > 1

\* The context the page workers see: the caller's, or their own cancel.
InnerCancelled == pgCtx \/ pgInner

\* return after the defers of the function are in place.
GateReturn(ret) == pgRet' = ret /\ pgPc' = "release"

\* return before a permit is held.
GateRefuse == pgRet' = "err" /\ pgPc' = "done"

\* The ctx.Err() test and the file-size ceiling (skipped when os.Stat fails).
GateEnter ==
    /\ pgPc = "call"
    /\ IF pgCtx THEN GateRefuse
       ELSE IF pgFile.ok /\ pgFile.size > pgCfg.maxFile THEN GateRefuse
       ELSE pgPc' = "acquire" /\ UNCHANGED pgRet
    /\ UNCHANGED <<pgFn, pgFile, pgCfg, pgCtx, pgPermit, pgPage, pgW, pgJobs, pgResults,
                   pgSeen, pgInner>>
    /\ UNCHANGED pgText
    /\ UNCHANGED pgRest

\* acquirePDFSlot: it fails when the memory is high, its select takes a
\* token of the semaphore or, when the context is cancelled, <-ctx.Done().
GateAcquire ==
    /\ pgPc = "acquire"
    /\ \/ GateRefuse /\ UNCHANGED pgPermit
       \/ pgCtx /\ GateRefuse /\ UNCHANGED pgPermit
       \/ pgPermit' = TRUE /\ pgPc' = "open" /\ UNCHANGED pgRet
    /\ UNCHANGED <<pgFn, pgFile, pgCfg, pgCtx, pgPage, pgW, pgJobs, pgResults, pgSeen,
                   pgInner>>
    /\ UNCHANGED pgText
    /\ UNCHANGED pgRest

\* pdfOpen inside pdfOpenWithLimit: on an error the permit is given back.
GateOpen ==
    /\ pgPc = "open"
    /\ IF ~pgFile.ok THEN pgPermit' = FALSE /\ GateRefuse
       ELSE pgPc' = "check" /\ UNCHANGED <<pgPermit, pgRet>>
    /\ UNCHANGED <<pgFn, pgFile, pgCfg, pgCtx, pgPage, pgW, pgJobs, pgResults, pgSeen,
                   pgInner>>
    /\ UNCHANGED pgText
    /\ UNCHANGED pgRest

\* The ctx.Err() test after the open and checkPdfPages; then the page loop
\* starts, or the page workers are.
GateCheck ==
    /\ pgPc = "check"
    /\ IF pgCtx \/ pgFile.pages > pgCfg.maxPages
       THEN GateReturn("err") /\ UNCHANGED <<pgPage, pgW, pgJobs>>
       ELSE IF Parallel
       THEN /\ pgPc' = "collect" /\ pgPage' = 1 /\ pgJobs' = 1
            /\ pgW' = [w \in PageWorkerIds |-> [pc |-> "idle", page |-> 0]]
            /\ UNCHANGED pgRet
       ELSE /\ pgPc' = "loop" /\ pgPage' = 1
            /\ UNCHANGED <<pgW, pgJobs, pgRet>>
    /\ UNCHANGED <<pgFn, pgFile, pgCfg, pgCtx, pgPermit, pgResults, pgSeen, pgInner>>
    /\ UNCHANGED pgText
    /\ UNCHANGED pgRest

\* The page loop before a page.  In pdfFindFirst and pdfFindSnippetsStream
\* the streaming matcher tests ctx.Err() before every call of next, and next
\* returns io.EOF after the last page and tests ctx.Err() otherwise; the
\* loop of pdfExtractTextSequential ends after the last page and tests
\* ctx.Err() at the top of its body.
GateLoop ==
    /\ pgPc = "loop"
    /\ IF pgFn \in {"first", "snippets"} /\ pgCtx THEN GateReturn("err")
       ELSE IF pgPage > pgFile.pages THEN GateReturn("ok")
       ELSE IF pgCtx THEN GateReturn("err")
       ELSE pgPc' = "page" /\ UNCHANGED pgRet
    /\ UNCHANGED <<pgFn, pgFile, pgCfg, pgCtx, pgPermit, pgPage, pgW, pgJobs, pgResults,
                   pgSeen, pgInner>>
    /\ UNCHANGED pgText
    /\ UNCHANGED pgRest

\* The caller has parsed page pgPage (r.Page, p.GetPlainText): an error ends
\* the call; so does the page with which the match is complete or maxBytes
\* is reached (cfg.budget).
GatePage ==
    /\ pgPc = "page"
    /\ IF pgPage = pgFile.bad THEN GateReturn("err") /\ UNCHANGED <<pgPage, pgText>>
       ELSE /\ pgText' = Append(pgText, pgPage)
            /\ IF pgPage >= pgCfg.budget THEN GateReturn("ok") /\ UNCHANGED pgPage
               ELSE pgPc' = "loop" /\ pgPage' = pgPage + 1 /\ UNCHANGED pgRet
    /\ UNCHANGED <<pgFn, pgFile, pgCfg, pgCtx, pgPermit, pgW, pgJobs, pgResults, pgSeen,
                   pgInner>>
    /\ UNCHANGED pgRest

\* Page worker w at "for pageNum := range jobs": it returns when jobs is
\* closed and empty or when it finds the context cancelled, and starts on the
\* page otherwise.
PageWorkerTake(w) ==
    /\ pgW[w].pc = "idle"
    /\ IF InnerCancelled \/ pgJobs > pgFile.pages
       THEN pgW' = [pgW EXCEPT ![w] = [pc |-> "exit", page |-> 0]] /\ UNCHANGED pgJobs
       ELSE /\ pgW' = [pgW EXCEPT ![w] = [pc |-> "parsing", page |-> pgJobs]]
            /\ pgJobs' = pgJobs + 1
    /\ UNCHANGED <<pgFn, pgFile, pgCfg, pgCtx, pgPc, pgPermit, pgPage, pgResults, pgSeen,
                   pgInner, pgRet>>
    /\ UNCHANGED pgText
    /\ UNCHANGED pgRest

\* Page worker w has parsed its page: its select sends the result or, when
\* the context is cancelled, takes <-ctx.Done(); after an error it returns.
PageWorkerParsed(w) ==
    /\ pgW[w].pc = "parsing"
    /\ \/ /\ pgResults' = pgResults \cup {pgW[w].page}
          /\ pgW' = [pgW EXCEPT ![w] = [pc |-> IF pgW[w].page = pgFile.bad
                                               THEN "exit" ELSE "idle",
                                        page |-> 0]]
       \/ /\ InnerCancelled
          /\ pgW' = [pgW EXCEPT ![w] = [pc |-> "exit", page |-> 0]]
          /\ UNCHANGED pgResults
    /\ UNCHANGED <<pgFn, pgFile, pgCfg, pgCtx, pgPc, pgPermit, pgPage, pgJobs, pgSeen,
                   pgInner, pgRet>>
    /\ UNCHANGED pgText
    /\ UNCHANGED pgRest

\* The pages a..b in order: their texts, as written to the builder.
PagesFromTo(a, b) == [k \in 1..(b - a + 1) |-> a + k - 1]

\* The first page from n on of which no result was received yet.
RECURSIVE NextPending(_, _)
NextPending(seen, n) == IF n \in seen THEN NextPending(seen, n + 1) ELSE n

\* pdfExtractTextParallel at "for res := range results": one result is
\* received and the pages that are complete in order are taken; or the
\* channel is closed.
GateCollect ==
    /\ pgPc = "collect"
    /\ \/ \E r \in pgResults \ pgSeen :
            /\ pgSeen' = pgSeen \cup {r}
            /\ IF r = pgFile.bad
               THEN pgInner' = TRUE /\ GateReturn("err") /\ UNCHANGED <<pgPage, pgText>>
               ELSE LET np == NextPending(pgSeen \cup {r}, pgPage) IN
                    IF np > pgPage /\ InnerCancelled
                    THEN GateReturn("err") /\ UNCHANGED <<pgPage, pgInner, pgText>>
                    ELSE IF np > pgPage /\ np - 1 >= pgCfg.budget
                    THEN /\ pgInner' = TRUE /\ pgPage' = np /\ GateReturn("ok")
                         /\ pgText' = pgText \o PagesFromTo(pgPage, Min(np - 1, pgCfg.budget))
                    ELSE /\ pgText' = pgText \o PagesFromTo(pgPage, np - 1)
                         /\ IF np > pgFile.pages
                            THEN pgPage' = np /\ GateReturn("ok") /\ UNCHANGED pgInner
                            ELSE pgPage' = np /\ UNCHANGED <<pgPc, pgRet, pgInner>>
       \/ /\ pgResults \ pgSeen = {}
          /\ \A w \in PageWorkerIds : pgW[w].pc = "exit"
          /\ GateReturn(IF InnerCancelled THEN "err" ELSE "ok")
          /\ UNCHANGED <<pgSeen, pgPage, pgInner, pgText>>
    /\ UNCHANGED <<pgFn, pgFile, pgCfg, pgCtx, pgPermit, pgW, pgJobs, pgResults>>
    /\ UNCHANGED pgRest

\* The deferred calls of the function that returns: cancel of
\* pdfExtractTextParallel, releasePDFSlotOnClose()(), f.Close().
GateRelease ==
    /\ pgPc = "release"
    /\ pgPc' = "done"
    /\ pgPermit' = FALSE
    /\ pgInner' = (pgInner \/ Parallel)
    /\ UNCHANGED <<pgFn, pgFile, pgCfg, pgCtx, pgPage, pgW, pgJobs, pgResults, pgSeen,
                   pgRet>>
    /\ UNCHANGED pgText
    /\ UNCHANGED pgRest

\* The owner of ctx cancels it while the call runs.
GateCancel ==
    /\ pgPc # "done" /\ ~pgCtx
    /\ pgCtx' = TRUE
    /\ UNCHANGED <<pgFn, pgFile, pgCfg, pgPc, pgPermit, pgPage, pgW, pgJobs, pgResults,
                   pgSeen, pgInner, pgRet>>
    /\ UNCHANGED pgText
    /\ UNCHANGED pgRest

----
\* ======================= harness of the PDF gate =========================

NoPageWorkers == [w \in PageWorkerIds |-> [pc |-> "none", page |-> 0]]

\* One call on one file: the file can be opened or not, is under or over the
\* size ceiling and the page ceiling, has a page that fails to parse or none.
PgInit ==
    /\ pgFn \in {"first", "snippets", "extract"}
    /\ pgFile \in [ok : BOOLEAN, size : 1..MaxPdfBytes, pages : 1..MaxPdfPages,
                   bad : {0, 2}]
    /\ pgCfg \in [maxFile : {CfgMaxFileBytes}, maxPages : {CfgMaxPages},
                  workers : 1..PageWorkers, budget : {1, MaxPdfPages + 1}]
    /\ pgCtx = FALSE /\ pgPc = "call" /\ pgPermit = FALSE /\ pgPage = 0
    /\ pgW = NoPageWorkers /\ pgJobs = 0 /\ pgResults = {} /\ pgSeen = {}
    /\ pgInner = FALSE /\ pgRet = "none" /\ pgText = <<>>

PgNext ==
    \/ GateEnter
    \/ GateAcquire
    \/ GateOpen
    \/ GateCheck
    \/ GateLoop
    \/ GatePage
    \/ GateCollect
    \/ GateRelease
    \/ GateCancel
    \/ \E w \in PageWorkerIds : PageWorkerTake(w)
    \/ \E w \in PageWorkerIds : PageWorkerParsed(w)

PgIdle ==
    /\ pgFn = "none" /\ pgFile = [ok |-> FALSE, size |-> 0, pages |-> 0, bad |-> 0]
    /\ pgCfg = [maxFile |-> 0, maxPages |-> 0, workers |-> 0, budget |-> 0]
    /\ pgCtx = FALSE /\ pgPc = "done" /\ pgPermit = FALSE /\ pgPage = 0
    /\ pgW = NoPageWorkers /\ pgJobs = 0 /\ pgResults = {} /\ pgSeen = {}
    /\ pgInner = FALSE /\ pgRet = "none" /\ pgText = <<>>

----
\* ======================= claims on the PDF gate ==========================

\* A page of the file is being parsed, by the caller or by a page worker.
PageParsing == pgPc = "page" \/ \E w \in PageWorkerIds : pgW[w].pc = "parsing"

OverCeiling == pgFile.size > pgCfg.maxFile \/ pgFile.pages > pgCfg.maxPages

\* C30 (as stated): no page is parsed unless the file is within the size
\* ceiling and the page ceiling and the caller holds a permit; a call on a
\* file over either ceiling returns an error, without a permit.
C30_FallbackGate ==
    /\ PageParsing => (~OverCeiling /\ pgPermit)
    /\ (pgPc = "done" /\ pgRet # "none" /\ OverCeiling) => (pgRet = "err" /\ ~pgPermit)

\* pdfExtractTextSequential on a document within the page ceiling, ctx not
\* cancelled: the error of the first page that fails, unless the byte budget
\* is reached before it; else the pages in order up to the one that fills
\* the budget.
SequentialOutcome(file, cfg) ==
    IF file.bad # 0 /\ file.bad <= file.pages /\ file.bad <= cfg.budget
    THEN [ret |-> "err", text |-> <<>>]
    ELSE [ret |-> "ok", text |-> PagesFromTo(1, Min(file.pages, cfg.budget))]

\* What the call returned: on an error the text is "".
Returned == [ret |-> pgRet, text |-> IF pgRet = "err" THEN <<>> ELSE pgText]

\* The call went through pdfExtractTextParallel and has returned, with the
\* caller's ctx never cancelled.
ParallelReturned ==
    /\ pgFn = "extract" /\ pgPc \in {"release", "done"} /\ pgRet # "none"
    /\ pgW[1].pc # "none" /\ ~pgCtx

\* C31 (as stated): pdfExtractTextParallel returns what
\* pdfExtractTextSequential returns on the same document and byte budget.
C31_ParallelAsSequential == ParallelReturned => Returned = SequentialOutcome(pgFile, pgCfg)

\* C31, what holds: the loop of pdfExtractTextSequential returns
\* SequentialOutcome; the parallel function returns the same text whenever
\* it returns without an error, and an error only for a document with a
\* page that fails.
C31_OrderPreserved ==
    /\ (pgFn = "extract" /\ pgPc \in {"release", "done"} /\ pgRet # "none"
        /\ pgW[1].pc = "none" /\ pgPage > 0 /\ ~pgCtx)
       => Returned = SequentialOutcome(pgFile, pgCfg)
    /\ (ParallelReturned /\ pgRet = "ok") => pgText = SequentialOutcome(pgFile, pgCfg).text
    /\ (ParallelReturned /\ pgRet = "err") => pgFile.bad \in 1..pgFile.pages

\* C30, what holds: the ceilings, and the permit for every page the caller
\* parses itself.
C30_CeilingsAndCallerPermit ==
    /\ PageParsing => ~OverCeiling
    /\ pgPc = "page" => pgPermit
    /\ (pgPc = "done" /\ pgRet # "none") => ~pgPermit
    /\ (pgPc = "done" /\ pgRet # "none" /\ OverCeiling) => pgRet = "err"

----
\* ======================= internal/extract: the choice of the extractor ====
\* FileFindFirst, FileFindSnippets and FileExtractText switch on
\* strings.ToLower(filepath.Ext(path)).

TextExts ==
    {<<".", "t", "x", "t">>, <<".", "m", "d">>, <<".", "l", "o", "g">>,
     <<".", "c", "s", "v">>, <<".", "j", "s", "o", "n">>, <<".", "x", "m", "l">>,
     <<".", "i", "n", "i">>, <<".", "y", "a", "m", "l">>, <<".", "y", "m", "l">>}
OoxmlExts ==
    {<<".", "d", "o", "c", "x">>, <<".", "x", "l", "s", "x">>, <<".", "p", "p", "t", "x">>,
     <<".", "v", "s", "d", "x">>}
PdfExt == <<".", "p", "d", "f">>
LegacyExts == {<<".", "d", "o", "c">>, <<".", "x", "l", "s">>, <<".", "p", "p", "t">>}

\* FileFindFirst: the function its switch calls ("text" for
\* textFileFindFirst, "ooxml" for ooxmlFindFirst, "pdf" for pdfFindFirst,
\* "ifilter" for ifilterFindFirst).
FileFindFirstCase(path) ==
    LET ext == ToLower(Ext(path)) IN
    IF ext \in TextExts THEN "text"
    ELSE IF ext \in OoxmlExts THEN "ooxml"
    ELSE IF ext = PdfExt THEN "pdf"
    ELSE "ifilter"

\* FileFindSnippets: textFileFindSnippets, ooxmlFindSnippets,
\* PDFFindSnippetsStream, ifilterFindSnippets.
FileFindSnippetsCase(path) ==
    LET ext == ToLower(Ext(path)) IN
    IF ext \in TextExts THEN "text"
    ELSE IF ext \in OoxmlExts THEN "ooxml"
    ELSE IF ext = PdfExt THEN "pdf"
    ELSE "ifilter"

\* FileExtractText: textFileExtractText, ooxmlExtractText for ".docx",
\* ".xlsx", ".pptx", and ifilterExtractText by default.
FileExtractTextCase(path) ==
    LET ext == ToLower(Ext(path)) IN
    IF ext \in TextExts THEN "text"
    ELSE IF ext \in {<<".", "d", "o", "c", "x">>, <<".", "x", "l", "s", "x">>,
                     <<".", "p", "p", "t", "x">>} THEN "ooxml"
    ELSE "ifilter"

\* One of the three entry points is called on the path.
CallFileFindFirst ==
    /\ xsSel.first = "none"
    /\ xsSel' = [xsSel EXCEPT !.first = FileFindFirstCase(xsPath)]
    /\ UNCHANGED xsPath
    /\ UNCHANGED xsRest

CallFileFindSnippets ==
    /\ xsSel.snippets = "none"
    /\ xsSel' = [xsSel EXCEPT !.snippets = FileFindSnippetsCase(xsPath)]
    /\ UNCHANGED xsPath
    /\ UNCHANGED xsRest

CallFileExtractText ==
    /\ xsSel.extract = "none"
    /\ xsSel' = [xsSel EXCEPT !.extract = FileExtractTextCase(xsPath)]
    /\ UNCHANGED xsPath
    /\ UNCHANGED xsRest

----
\* ======================= harness of the choice of the extractor ==========

\* A letter of the extension in capitals, and the whole of it.
ToUpperRune(ch) ==
    IF \E k \in 1..Len(LowerLetters) : LowerLetters[k] = ch
    THEN UpperLetters[CHOOSE k \in 1..Len(LowerLetters) : LowerLetters[k] = ch]
    ELSE ch
ToUpper(s) == [i \in 1..Len(s) |-> ToUpperRune(s[i])]
Capitalised(s) == [i \in 1..Len(s) |-> IF i = 2 THEN ToUpperRune(s[i]) ELSE s[i]]

\* Extensions: the ones the switches name, two they do not, and none.
PathExts ==
    TextExts \cup OoxmlExts \cup {PdfExt} \cup LegacyExts
    \cup {<<".", "i", "m", "g">>, <<".", "p", "d", "f", "x">>, <<>>}

\* Paths: a directory with a dot in its name or none, a stem, an extension
\* in small letters, in capitals or capitalised, and extensions with a
\* capital outside ASCII (U+0130 and U+212A have the lower cases i and k).
SelPaths ==
    {dir \o <<"a">> \o e : dir \in {<<>>, <<"d", ".", "p", "d", "f", "/">>,
                                   <<"d", ".", "p", "d", "f", "\\">>},
                           e \in PathExts \cup {ToUpper(x) : x \in PathExts}
                                          \cup {Capitalised(x) : x \in PathExts}
                                          \cup {<<".", "U+0130", "n", "i">>,
                                                <<".", "U+0414", "o", "c">>}}

XsInit ==
    /\ xsPath \in SelPaths
    /\ xsSel = [first |-> "none", snippets |-> "none", extract |-> "none"]

XsNext ==
    \/ CallFileFindFirst
    \/ CallFileFindSnippets
    \/ CallFileExtractText

XsIdle ==
    /\ xsPath = <<>>
    /\ xsSel = [first |-> "idle", snippets |-> "idle", extract |-> "idle"]

----
\* ======================= claims on the choice of the extractor ===========

\* The extractor the lower-cased extension stands for.
ExtractorOf(ext) ==
    IF ext \in TextExts THEN "text"
    ELSE IF ext \in OoxmlExts THEN "ooxml"
    ELSE IF ext = PdfExt THEN "pdf"
    ELSE "ifilter"

\* C32 (as stated): each of the three entry points calls the extractor of
\* the lower-cased extension of the path: the plain-text one for the text
\* extensions, the container one for .docx, .xlsx, .pptx, .vsdx, the PDF one
\* for .pdf, the OS text filter for .doc, .xls, .ppt; so the three agree.
C32_SameExtractor ==
    \A k \in {"first", "snippets", "extract"} :
       xsSel[k] \notin {"none", "idle"} => xsSel[k] = ExtractorOf(ToLower(Ext(xsPath)))

\* C32, what holds: the first-match and the snippet entry points call the
\* extractor of the lower-cased extension, and all three send the text
\* extensions to the plain-text extractor and .doc, .xls, .ppt to the OS text
\* filter.
C32_FindEntryPoints ==
    /\ \A k \in {"first", "snippets"} :
          xsSel[k] \notin {"none", "idle"} => xsSel[k] = ExtractorOf(ToLower(Ext(xsPath)))
    /\ (xsSel.extract \notin {"none", "idle"}
        /\ ToLower(Ext(xsPath)) \in TextExts \cup LegacyExts \cup (OoxmlExts \ {<<".", "v", "s", "d", "x">>}))
       => xsSel.extract = ExtractorOf(ToLower(Ext(xsPath)))

----
\* ======================= internal/extract: the chunks of a text file =====
\* The closure next of textFileFindSnippets on a UTF-8 file: each call reads
\* into a buffer behind the bytes held back by the call before, holds back
\* an incomplete sequence at the end, and drops a byte-order mark from the
\* first chunk.  Bytes are numbers 0..255.

\* Code points a file is made of, at most MaxRunes of them, and the most
\* bytes one f.Read delivers.
MaxRunes == 3
MaxRead == 4

Utf8Bom == <<239, 187, 191>>
FileRunes == {<<97>>, <<195, 169>>, <<226, 130, 172>>, <<240, 157, 132, 158>>, Utf8Bom}

\* cutPartialUTF8 from its loop index i on.
RECURSIVE cutPartialFrom(_, _)
cutPartialFrom(b, i) ==
    IF i >= 3 \/ i >= Len(b) THEN [valid |-> b, rest |-> <<>>]
    ELSE LET idx == Len(b) - i
             c == b[idx]
             needed == IF c < 224 THEN 2 ELSE IF c < 240 THEN 3 ELSE IF c < 248 THEN 4 ELSE 0
         IN IF c >= 192
            THEN IF needed # 0 /\ i + 1 < needed
                 THEN [valid |-> SubSeq(b, 1, idx - 1), rest |-> SubSeq(b, idx, Len(b))]
                 ELSE [valid |-> b, rest |-> <<>>]
            ELSE IF c < 128 THEN [valid |-> b, rest |-> <<>>]
            ELSE cutPartialFrom(b, i + 1)

cutPartialUTF8(b) == cutPartialFrom(b, 0)

\* "if len(b) >= 3 && b[0] == 0xEF && b[1] == 0xBB && b[2] == 0xBF".
dropBom(b) ==
    IF Len(b) >= 3 /\ SubSeq(b, 1, 3) = Utf8Bom THEN SubSeq(b, 4, Len(b)) ELSE b

\* One call of next: f.Read delivers n bytes, at least one unless the file
\* is at its end (0 and io.EOF).
TextNext ==
    /\ ~tcEof
    /\ \E n \in 0..Min(MaxRead, Len(tcFile) - tcPos) :
         /\ (n = 0) = (tcPos = Len(tcFile))
         /\ LET eof == n = 0
                b == tcLeftOver \o SubSeq(tcFile, tcPos + 1, tcPos + n)
                cut == IF eof THEN [valid |-> b, rest |-> <<>>] ELSE cutPartialUTF8(b)
                chunk == IF tcFirst THEN dropBom(cut.valid) ELSE cut.valid
            IN IF Len(b) = 0
               THEN /\ tcLast' = <<>>
                    /\ UNCHANGED <<tcLeftOver, tcFirst, tcOut>>
               ELSE /\ tcLeftOver' = cut.rest
                    /\ tcFirst' = FALSE
                    /\ tcLast' = chunk
                    /\ tcOut' = tcOut \o chunk
         /\ tcPos' = tcPos + n
         /\ tcEof' = (n = 0)
         /\ tcFirstRead' = IF tcPos = 0 THEN n ELSE tcFirstRead
    /\ UNCHANGED tcFile
    /\ UNCHANGED tcRest

----
\* ======================= harness of the chunks of a text file ============

\* A file of valid UTF-8, with a byte-order mark anywhere or nowhere.
TcInit ==
    /\ tcFile \in {Flatten(ss) : ss \in SeqsOf(FileRunes, 0, MaxRunes)}
    /\ tcPos = 0 /\ tcLeftOver = <<>> /\ tcFirst = TRUE
    /\ tcLast = <<>> /\ tcOut = <<>> /\ tcEof = FALSE /\ tcFirstRead = 0

TcNext == TextNext

TcIdle ==
    /\ tcFile = <<>> /\ tcPos = 0 /\ tcLeftOver = <<>> /\ tcFirst = FALSE
    /\ tcLast = <<>> /\ tcOut = <<>> /\ tcEof = TRUE /\ tcFirstRead = 0

----
\* ======================= claims on the chunks of a text file =============

\* b is a sequence of whole UTF-8 sequences: a lead byte and the
\* continuation bytes it announces.
RECURSIVE ValidUtf8(_)
ValidUtf8(b) ==
    IF b = <<>> THEN TRUE
    ELSE LET c == b[1]
             len == IF c < 128 THEN 1
                    ELSE IF c >= 192 /\ c < 224 THEN 2
                    ELSE IF c >= 224 /\ c < 240 THEN 3
                    ELSE IF c >= 240 /\ c < 248 THEN 4 ELSE 0
         IN /\ len # 0 /\ len <= Len(b)
            /\ \A k \in 2..len : b[k] >= 128 /\ b[k] < 192
            /\ ValidUtf8(SubSeq(b, len + 1, Len(b)))

\* C33 (as stated): every fragment is valid UTF-8, and when the source has
\* reported the end of the file the fragments together are the content of
\* the file without a leading byte-order mark.
C33_WholeCodePoints ==
    /\ ValidUtf8(tcLast)
    /\ tcEof => tcOut = dropBom(tcFile)

\* C33, what holds for every sequence of read sizes: every fragment is valid
\* UTF-8, nothing but a leading byte-order mark is ever missing, and the
\* mark is dropped when the first read delivers three bytes or more.
C33_FragmentsValid ==
    /\ ValidUtf8(tcLast)
    /\ tcEof => tcOut \in {tcFile, dropBom(tcFile)}
    /\ (tcEof /\ tcFirstRead >= 3) => tcOut = dropBom(tcFile)

----
\* ======================= internal/extract: snippets of a container entry ==
\* xmlStreamFindSnippets on one XML entry of a container file: the decoder
\* yields the tokens of the entry, and each xml.CharData token (a text node)
\* is searched.  The other tokens are passed over and are left out here.

\* Text nodes of an entry, and the code points of a node.
MaxNodes == 2
MaxNodeLen == 2

\* xmlStreamFindSnippets up to its loop: "if maxSnippets <= 0 { return nil, nil }".
XmlEnter ==
    /\ oxPc = "call"
    /\ oxPc' = IF oxMaxSnippets <= 0 THEN "ret" ELSE "loop"
    /\ UNCHANGED <<oxNodes, oxQuery, oxContextLen, oxMaxSnippets, oxK, oxSnips>>
    /\ UNCHANGED oxRest

\* One turn of the loop: dec.Token() yields the next text node, or io.EOF.
\* A node that does not contain the query is passed over; the others go to
\* FindSnippets, each on its own.
XmlToken ==
    /\ oxPc = "loop"
    /\ IF oxK > Len(oxNodes)
       THEN oxPc' = "ret" /\ UNCHANGED <<oxK, oxSnips>>
       ELSE LET v == oxNodes[oxK]
                found == IF Len(oxQuery) > 0 /\ ~Contains(v, oxQuery) THEN <<>>
                         ELSE FindSnippets(v, oxQuery, oxContextLen,
                                           oxMaxSnippets - Len(oxSnips))
            IN /\ oxSnips' = oxSnips \o found
               /\ oxK' = oxK + 1
               /\ oxPc' = IF Len(found) > 0 /\ Len(oxSnips \o found) >= oxMaxSnippets
                          THEN "ret" ELSE "loop"
    /\ UNCHANGED <<oxNodes, oxQuery, oxContextLen, oxMaxSnippets>>
    /\ UNCHANGED oxRest

----
\* ======================= harness of the container entry ==================

NodeTexts == SeqsOf({"a", "b"}, 1, MaxNodeLen)

\* An entry of one or more text nodes, none empty; a query as
\* ooxmlFindSnippets hands it on (trimmed, not empty).
OxInit ==
    /\ oxNodes \in SeqsOf(NodeTexts, 1, MaxNodes)
    /\ oxQuery \in SeqsOf({"a", "b"}, 1, MaxQueryLen)
    /\ oxContextLen \in 0..MaxContext
    /\ oxMaxSnippets \in 0..MaxSnips
    /\ oxPc = "call" /\ oxK = 1 /\ oxSnips = <<>>

OxNext ==
    \/ XmlEnter
    \/ XmlToken

OxIdle ==
    /\ oxNodes = <<>> /\ oxQuery = <<>> /\ oxContextLen = 0 /\ oxMaxSnippets = 0
    /\ oxPc = "idle" /\ oxK = 0 /\ oxSnips = <<>>

----
\* ======================= claims on the container entry ===================

\* C34 (as stated): for a positive maxSnippets, xmlStreamFindSnippets returns
\* the snippets of the single-shot matcher on the text nodes of the entry
\* put together.
C34_NodeBoundaryEquivalence ==
    (oxPc = "ret" /\ oxMaxSnippets > 0)
    => oxSnips = FindSnippets(Flatten(oxNodes), oxQuery, oxContextLen, oxMaxSnippets)

\* C34, what holds: the snippets returned are those of the single-shot
\* matcher on each text node by itself, in the order of the nodes, up to
\* maxSnippets; for an entry of one text node that is the claim.
C34_PerNode ==
    (oxPc = "ret" /\ oxMaxSnippets > 0)
    => /\ Len(oxSnips) <= oxMaxSnippets
       /\ Len(oxNodes) = 1
          => oxSnips = FindSnippets(oxNodes[1], oxQuery, oxContextLen, oxMaxSnippets)
       /\ \A k \in 1..Len(oxSnips) :
             \E n \in 1..Len(oxNodes) :
                \E j \in 1..oxMaxSnippets :
                   LET one == FindSnippets(oxNodes[n], oxQuery, oxContextLen, oxMaxSnippets)
                   IN j <= Len(one) /\ one[j] = oxSnips[k]

----
\* ======================= internal/search: searchWithContext ===============
\* searchWithContext starts the workers, a goroutine that walks the roots
\* and sends the candidate paths on jobs, and a goroutine that closes jobs
\* after the walk and resCh after the workers; it then receives from resCh
\* until that is closed.  ctx is cancelled by the cancel function FindAsync
\* returns, at any moment or never.

\* cfg.WorkerCount() is 1..MaxSearchWorkers; the roots hold at most MaxFiles
\* entries; resCh has room for workers*ResPerWorker results (2 per worker in
\* the code) and jobs for workers*JobsPerWorker paths.
MaxSearchWorkers == 2
MaxFiles == 3
ResPerWorker == 1

SwWorkerIds == 1..swWorkers
SwJobsCap == swWorkers * JobsPerWorker
SwResCap == swWorkers * ResPerWorker

\* The callback of filepath.WalkDir at entry swK, and the loop over the
\* roots.  An entry reported with an error is passed over before ctx is
\* looked at; at any other entry a cancelled ctx ends the walk of the root,
\* and the test of ctx.Err() after WalkDir ends the loop over the roots.
\* The step from one root to the next is that same test, so it takes the
\* path of a "dir" entry.
SwWalk ==
    /\ swWalkPc = "walk"
    /\ IF swK > Len(swTree)
       THEN swWalkPc' = "done" /\ UNCHANGED swK
       ELSE LET e == swTree[swK] IN
            IF e = "err" THEN swK' = swK + 1 /\ UNCHANGED swWalkPc
            ELSE IF swCancelled THEN swWalkPc' = "done" /\ UNCHANGED swK
            ELSE IF e = "file" THEN swWalkPc' = "send" /\ UNCHANGED swK
            ELSE swK' = swK + 1 /\ UNCHANGED swWalkPc
    /\ UNCHANGED <<swWorkers, swTree, swCancelled, swJobs, swJobsClosed, swW, swRes,
                   swResClosed, swCloserPc, swMainPc, swGot>>
    /\ UNCHANGED swRest

\* A mutant of SwWalkSend: the send on jobs without the case <-ctx.Done().
SwWalkSend_NoDone ==
    /\ swWalkPc = "send"
    /\ swJobs < SwJobsCap
    /\ swJobs' = swJobs + 1 /\ swK' = swK + 1 /\ swWalkPc' = "walk"
    /\ UNCHANGED <<swWorkers, swTree, swCancelled, swJobsClosed, swW, swRes, swResClosed,
                   swCloserPc, swMainPc, swGot>>
    /\ UNCHANGED swRest

\* The select of the callback: the path goes on jobs when there is room, or
\* <-ctx.Done() ends the walk.
SwWalkSend ==
    /\ swWalkPc = "send"
    /\ \/ /\ swJobs < SwJobsCap
          /\ swJobs' = swJobs + 1 /\ swK' = swK + 1 /\ swWalkPc' = "walk"
       \/ /\ swCancelled
          /\ swWalkPc' = "done" /\ UNCHANGED <<swJobs, swK>>
    /\ UNCHANGED <<swWorkers, swTree, swCancelled, swJobsClosed, swW, swRes, swResClosed,
                   swCloserPc, swMainPc, swGot>>
    /\ UNCHANGED swRest

\* Worker i, one step: at "for path := range jobs" it takes a path, or
\* returns when jobs is closed and empty; with a path in hand it tests
\* ctx.Err() and returns when ctx is cancelled; it calls
\* extract.FileFindFirst; with a match its select sends the result when
\* resCh has room, or returns on <-ctx.Done().
SwWorker(i) ==
    /\ \/ /\ swW[i] = "recv" /\ swJobs > 0
          /\ swJobs' = swJobs - 1
          /\ swW' = [swW EXCEPT ![i] = "ctx"]
          /\ UNCHANGED swRes
       \/ /\ swW[i] = "ctx"
          /\ swW' = [swW EXCEPT ![i] = IF swCancelled THEN "exit" ELSE "match"]
          /\ UNCHANGED <<swJobs, swRes>>
       \/ /\ swW[i] = "recv" /\ swJobs = 0 /\ swJobsClosed
          /\ swW' = [swW EXCEPT ![i] = "exit"]
          /\ UNCHANGED <<swJobs, swRes>>
       \/ /\ swW[i] = "match"
          /\ \E found \in BOOLEAN : swW' = [swW EXCEPT ![i] = IF found THEN "send" ELSE "recv"]
          /\ UNCHANGED <<swJobs, swRes>>
       \/ /\ swW[i] = "send" /\ swRes < SwResCap
          /\ swRes' = swRes + 1
          /\ swW' = [swW EXCEPT ![i] = "recv"]
          /\ UNCHANGED swJobs
       \/ /\ swW[i] = "send" /\ swCancelled
          /\ swW' = [swW EXCEPT ![i] = "exit"]
          /\ UNCHANGED <<swJobs, swRes>>
    /\ UNCHANGED <<swWorkers, swTree, swCancelled, swK, swWalkPc, swJobsClosed, swResClosed,
                   swCloserPc, swMainPc, swGot>>
    /\ UNCHANGED swRest

\* The closing goroutine: <-walkDone; close(jobs); wg.Wait(); close(resCh).
SwCloser ==
    /\ \/ /\ swCloserPc = "walkDone" /\ swWalkPc = "done"
          /\ swJobsClosed' = TRUE /\ swCloserPc' = "wait"
          /\ UNCHANGED swResClosed
       \/ /\ swCloserPc = "wait" /\ \A i \in SwWorkerIds : swW[i] = "exit"
          /\ swResClosed' = TRUE /\ swCloserPc' = "done"
          /\ UNCHANGED swJobsClosed
    /\ UNCHANGED <<swWorkers, swTree, swCancelled, swK, swWalkPc, swJobs, swW, swRes,
                   swMainPc, swGot>>
    /\ UNCHANGED swRest

\* searchWithContext itself at "for r := range resCh": it takes a result and
\* calls onResult, or returns when resCh is closed and empty.
SwMain ==
    /\ swMainPc = "range"
    /\ \/ /\ swRes > 0
          /\ swRes' = swRes - 1 /\ swGot' = swGot + 1
          /\ UNCHANGED swMainPc
       \/ /\ swRes = 0 /\ swResClosed
          /\ swMainPc' = "returned"
          /\ UNCHANGED <<swRes, swGot>>
    /\ UNCHANGED <<swWorkers, swTree, swCancelled, swK, swWalkPc, swJobs, swJobsClosed, swW,
                   swResClosed, swCloserPc>>
    /\ UNCHANGED swRest

\* The caller of FindAsync calls cancel.
SwCancel ==
    /\ ~swCancelled /\ swMainPc = "range"
    /\ swCancelled' = TRUE
    /\ UNCHANGED <<swWorkers, swTree, swK, swWalkPc, swJobs, swJobsClosed, swW, swRes,
                   swResClosed, swCloserPc, swMainPc, swGot>>
    /\ UNCHANGED swRest

----
\* ======================= harness of searchWithContext ====================

\* What the walk meets: files with a supported extension, directories (or
\* files of another extension, or the step to the next root) and entries
\* reported with an error.
SwInit ==
    /\ swWorkers \in 1..MaxSearchWorkers
    /\ swTree \in SeqsOf({"file", "dir", "err"}, 0, MaxFiles)
    /\ swCancelled = FALSE /\ swK = 1 /\ swWalkPc = "walk"
    /\ swJobs = 0 /\ swJobsClosed = FALSE
    /\ swW = [i \in 1..swWorkers |-> "recv"]
    /\ swRes = 0 /\ swResClosed = FALSE /\ swCloserPc = "walkDone"
    /\ swMainPc = "range" /\ swGot = 0

\* A step of one of the goroutines.
SwStep ==
    \/ SwWalk
    \/ SwWalkSend
    \/ \E i \in SwWorkerIds : SwWorker(i)
    \/ SwCloser
    \/ SwMain

SwNext ==
    \/ SwWalk
    \/ SwWalkSend
    \/ \E i \in SwWorkerIds : SwWorker(i)
    \/ SwCloser
    \/ SwMain
    \/ SwCancel

\* The scheduler runs a goroutine that is ready: while some goroutine can
\* take a step, one of them eventually does.
SwFairness == WF_vars(SwStep)

SwIdle ==
    /\ swWorkers = 0 /\ swTree = <<>> /\ swCancelled = FALSE /\ swK = 0
    /\ swWalkPc = "done" /\ swJobs = 0 /\ swJobsClosed = TRUE /\ swW = <<>>
    /\ swRes = 0 /\ swResClosed = TRUE /\ swCloserPc = "done"
    /\ swMainPc = "idle" /\ swGot = 0

----
\* ======================= claims on searchWithContext =====================

\* Every goroutine has ended and searchWithContext has returned.
SwTerminated ==
    /\ swMainPc = "returned" /\ swWalkPc = "done" /\ swCloserPc = "done"
    /\ \A i \in SwWorkerIds : swW[i] = "exit"

\* C38: whatever the roots, the worker count and the moment of a
\* cancellation, searchWithContext returns and the walker, the workers and
\* the closing goroutine end; none stays blocked on jobs or resCh.
C38_AlwaysReturns == <>SwTerminated

\* C38 witness: the call has returned after a cancellation that cut the walk
\* short while a path was waiting for room on jobs.
C38_Witness ==
    /\ SwTerminated /\ swCancelled
    /\ swK <= Len(swTree) /\ swTree[swK] = "file" /\ swJobs = SwJobsCap

\* C38 witness: without a cancellation, every file was searched and the
\* results were received.
C38_WitnessComplete ==
    /\ SwTerminated /\ ~swCancelled /\ swK > Len(swTree)
    /\ swGot = MaxFiles /\ swJobs = 0 /\ swRes = 0

----
\* ======================= internal/app: RunCLI ============================
\* RunCLI starts one daemon process per root, each with a callback that puts
\* the daemon's output events on outCh when there is room and drops them
\* otherwise, submits the query with queryId 1 and receives from outCh until
\* it has counted one done event per started daemon; then it prints.

\* At most MaxDaemons daemons start; a daemon writes at most MaxEmit events
\* before its done event; outCh has OutChCap places (1024 in the code).
MaxDaemons == 2
MaxEmit == 2
OutChCap == 2

RcDaemonIds == 1..rcNeed

\* The loop over the roots and the submission: doneNeed counts the daemons
\* that started; with none RunCLI returns an error, otherwise SetQuery goes
\* to every daemon.
RcStart ==
    /\ rcPc = "start"
    /\ rcPc' = IF rcNeed = 0 THEN "failed" ELSE "collect"
    /\ UNCHANGED <<rcNeed, rcEmitted, rcOutCh, rcGot, rcRows, rcLostDone>>
    /\ UNCHANGED rcRest

\* The select of the callback: the event goes on outCh when there is room,
\* by default it is dropped.
onOut(ch, ev) == IF Len(ch) < OutChCap THEN Append(ch, ev) ELSE ch

\* The reader goroutine of daemon d scans one line of the daemon's output
\* and calls the callback: a result or a status event of the query, or the
\* done event that ends the daemon's answer.
RcCallback(d) ==
    /\ rcPc \in {"collect", "printed"}
    /\ rcEmitted[d] <= MaxEmit
    /\ \E ev \in {"result", "status", "done"} :
          /\ ev # "done" => rcEmitted[d] < MaxEmit
          /\ rcEmitted' = [rcEmitted EXCEPT ![d] = IF ev = "done" THEN MaxEmit + 1 ELSE @ + 1]
          /\ rcOutCh' = onOut(rcOutCh, ev)
          /\ rcLostDone' = IF ev = "done" /\ onOut(rcOutCh, ev) = rcOutCh
                           THEN rcLostDone + 1 ELSE rcLostDone
    /\ UNCHANGED <<rcNeed, rcPc, rcGot, rcRows>>
    /\ UNCHANGED rcRest

\* One round of "for doneGot < doneNeed": out := <-outCh, a result is
\* recorded, a done event counted, any other event passed over.
RcCollect ==
    /\ rcPc = "collect" /\ rcGot < rcNeed
    /\ rcOutCh # <<>>
    /\ rcOutCh' = Tail(rcOutCh)
    /\ rcRows' = IF Head(rcOutCh) = "result" THEN rcRows + 1 ELSE rcRows
    /\ rcGot' = IF Head(rcOutCh) = "done" THEN rcGot + 1 ELSE rcGot
    /\ UNCHANGED <<rcNeed, rcPc, rcEmitted, rcLostDone>>
    /\ UNCHANGED rcRest

\* The loop ends with doneGot = doneNeed and RunCLI prints "No matches." or
\* the rows.
RcPrint ==
    /\ rcPc = "collect" /\ rcGot >= rcNeed
    /\ rcPc' = "printed"
    /\ UNCHANGED <<rcNeed, rcEmitted, rcOutCh, rcGot, rcRows, rcLostDone>>
    /\ UNCHANGED rcRest

----
\* ======================= harness of RunCLI ===============================

RcInit ==
    /\ rcNeed \in 0..MaxDaemons
    /\ rcPc = "start"
    /\ rcEmitted = [d \in 1..rcNeed |-> 0]
    /\ rcOutCh = <<>> /\ rcGot = 0 /\ rcRows = 0 /\ rcLostDone = 0

RcNext ==
    \/ RcStart
    \/ \E d \in RcDaemonIds : RcCallback(d)
    \/ RcCollect
    \/ RcPrint

\* The reader goroutines and RunCLI are scheduled while they can run.
RcFairness == WF_vars(RcNext)

RcIdle ==
    /\ rcNeed = 0 /\ rcPc = "idle" /\ rcEmitted = <<>>
    /\ rcOutCh = <<>> /\ rcGot = 0 /\ rcRows = 0 /\ rcLostDone = 0

----
\* ======================= claims on RunCLI ================================

\* Every started daemon has written its done event.
RcAllDone == rcPc = "collect" /\ \A d \in RcDaemonIds : rcEmitted[d] = MaxEmit + 1

\* C39: once every started daemon has emitted its done event, the
\* collecting loop counts them all, ends, and RunCLI prints.
C39_Terminates == RcAllDone ~> (rcPc = "printed")

\* What holds of C39: RunCLI prints once every daemon has emitted done,
\* unless the callback dropped a done event on a full outCh.
C39_UnlessDropped == (RcAllDone /\ rcLostDone = 0) ~> (rcPc = "printed")

----
\* ======================= internal/app: the UI's result aggregator ========
\* RunUI numbers its queries with gen.  Daemon events reach the window
\* through resultCh, the aggregator goroutine's buffer and the callbacks it
\* hands to mw.Synchronize; gen changes on the UI thread only, where the
\* callbacks run too.

\* Scaled capacities: resultCh (2000), maxBufferItems (20000),
\* maxBatchPerTick (400), maxAppendPerTick (200), MaxResults (5000).
ResultChCap == 1
MaxBufferItems == 2
MaxBatchPerTick == 2
MaxAppendPerTick == 1
MaxResults == 2

\* Generations started, and daemon events emitted.
MaxGen == 2
MaxEvents == 2

EventTypes == {"result", "status", "done"}
Event(type, id) == [Type |-> type, QueryID |-> id]

NoApply == [ran |-> FALSE, curGen |-> 0, applied |-> {}, skipped |-> {},
            results |-> 0, before |-> 0, added |-> 0]

\* The result events of generation curGen in a batch.
ResultsOf(batch, curGen) ==
    Cardinality({k \in 1..Len(batch) :
                   batch[k].Type = "result" /\ batch[k].QueryID = curGen})

\* A mutant of staleEvent: the callback takes every event.
staleEvent_Never(out, curGen) == FALSE

\* "if out.QueryID != curGen { continue }" of the callback.
staleEvent(out, curGen) == out.QueryID # curGen

\* The loop of the callback over its batch from event k on.  slowFrom is
\* the first position at which time.Since(start) exceeds maxUITick.
RECURSIVE ApplyLoop(_, _, _, _, _)
ApplyLoop(batch, curGen, slowFrom, k, acc) ==
    IF k > Len(batch) THEN acc
    ELSE LET out == batch[k] IN
         IF staleEvent(out, curGen)
         THEN ApplyLoop(batch, curGen, slowFrom, k + 1,
                        [acc EXCEPT !.skipped = @ \cup {out.QueryID}])
         ELSE IF out.Type = "result"
         THEN IF acc.rowsToAdd >= MaxAppendPerTick \/ k >= slowFrom
              THEN ApplyLoop(batch, curGen, slowFrom, k + 1, acc)
              ELSE ApplyLoop(batch, curGen, slowFrom, k + 1,
                             [acc EXCEPT !.rowsToAdd = @ + 1,
                                         !.applied = @ \cup {out.QueryID}])
         ELSE IF out.Type = "status"
         THEN ApplyLoop(batch, curGen, slowFrom, k + 1,
                        [acc EXCEPT !.lastStatusMsg = "idle",
                                    !.applied = @ \cup {out.QueryID}])
         ELSE ApplyLoop(batch, curGen, slowFrom, k + 1,
                        [acc EXCEPT !.isDone = TRUE, !.applied = @ \cup {out.QueryID}])

\* The callback handed to mw.Synchronize, run on a batch with RowCount rows
\* in the model: the rows and the status afterwards ("" for a status bar
\* left as it was).
ApplyBatch(batch, curGen, slowFrom, rowCount) ==
    LET acc == ApplyLoop(batch, curGen, slowFrom, 1,
                   [rowsToAdd |-> 0, lastStatusMsg |-> "", isDone |-> FALSE,
                    applied |-> {}, skipped |-> {}])
        fits == rowCount < MaxResults
        over == fits /\ rowCount + acc.rowsToAdd > MaxResults
        added == IF acc.rowsToAdd > 0 /\ fits
                 THEN (IF over THEN MaxResults - rowCount ELSE acc.rowsToAdd)
                 ELSE 0
        msg == IF acc.rowsToAdd > 0 /\ over THEN "too many" ELSE acc.lastStatusMsg
    IN [rows |-> rowCount + added,
        status |-> IF acc.isDone THEN "Done"
                   ELSE IF msg # "" THEN msg
                   ELSE IF acc.rowsToAdd > 0 THEN "Matches"
                   ELSE "",
        applied |-> acc.applied, skipped |-> acc.skipped]

\* ----- the window as a state machine -----

\* The debounce timer's callback, run by the UI thread: startSearchNow with
\* the text of the edits (text), and the roots given or not.
StartSearchNow ==
    /\ ~uiClosed /\ uiGen < MaxGen
    /\ \E text \in {"empty", "short", "ok"}, roots \in BOOLEAN :
         IF text = "empty"
         THEN /\ uiGen' = uiGen + 1
              /\ uiRows' = 0
              /\ uiStatus' = "Ready"
         ELSE IF text = "short"
         THEN /\ uiStatus' = "too short"
              /\ UNCHANGED <<uiGen, uiRows>>
         ELSE IF ~roots
         THEN /\ uiStatus' = "no roots"
              /\ UNCHANGED <<uiGen, uiRows>>
         ELSE /\ uiRows' = 0
              /\ uiStatus' = "Searching"
              /\ uiGen' = uiGen + 1
    /\ UNCHANGED <<uiClosed, uiEmitted, uiResultCh, uiBuffer, uiAggPc, uiSync, uiLast>>
    /\ UNCHANGED uiRest

\* The stop button: stopSearch().
StopSearch ==
    /\ ~uiClosed /\ uiGen < MaxGen
    /\ uiGen' = uiGen + 1
    /\ uiStatus' = "cancelled"
    /\ UNCHANGED <<uiClosed, uiEmitted, uiResultCh, uiBuffer, uiAggPc, uiSync, uiRows, uiLast>>
    /\ UNCHANGED uiRest

\* A query edit changes: onAnyQueryChanged().
OnAnyQueryChanged ==
    /\ ~uiClosed /\ uiGen < MaxGen
    /\ uiGen' = uiGen + 1
    /\ uiRows' = 0
    /\ \E text \in {"empty", "short", "ok"} :
         uiStatus' = IF text = "empty" THEN "Ready"
                     ELSE IF text = "short" THEN "too short" ELSE "typing"
    /\ UNCHANGED <<uiClosed, uiEmitted, uiResultCh, uiBuffer, uiAggPc, uiSync, uiLast>>
    /\ UNCHANGED uiRest

\* A daemon writes an event for one of the generations it was sent; the
\* reader's callback puts it on resultCh, or drops it when the channel is
\* full or the window closed.
DaemonEmit ==
    /\ uiEmitted < MaxEvents
    /\ \E type \in EventTypes, id \in 1..uiGen :
         uiResultCh' = IF ~uiClosed /\ Len(uiResultCh) < ResultChCap
                       THEN Append(uiResultCh, Event(type, id))
                       ELSE uiResultCh
    /\ uiEmitted' = uiEmitted + 1
    /\ UNCHANGED <<uiGen, uiClosed, uiBuffer, uiAggPc, uiSync, uiRows, uiStatus, uiLast>>
    /\ UNCHANGED uiRest

\* The aggregator goroutine takes an event from resultCh.
AggregatorRecv ==
    /\ uiAggPc = "select" /\ uiResultCh # <<>>
    /\ uiResultCh' = Tail(uiResultCh)
    /\ uiBuffer' = IF ~uiClosed /\ Len(uiBuffer) < MaxBufferItems
                   THEN Append(uiBuffer, Head(uiResultCh))
                   ELSE uiBuffer
    /\ UNCHANGED <<uiGen, uiClosed, uiEmitted, uiAggPc, uiSync, uiRows, uiStatus, uiLast>>
    /\ UNCHANGED uiRest

\* The aggregator's ticker fires with events in the buffer: a batch goes to
\* mw.Synchronize.  After the window closed (closeCh is closed, uiClosed
\* set) the goroutine returns.
AggregatorTick ==
    /\ uiAggPc = "select"
    /\ IF uiClosed
       THEN /\ uiAggPc' = "returned"
            /\ UNCHANGED <<uiBuffer, uiSync>>
       ELSE /\ uiBuffer # <<>>
            /\ LET n == Min(Len(uiBuffer), MaxBatchPerTick) IN
               /\ uiSync' = Append(uiSync, SubSeq(uiBuffer, 1, n))
               /\ uiBuffer' = SubSeq(uiBuffer, n + 1, Len(uiBuffer))
            /\ UNCHANGED uiAggPc
    /\ UNCHANGED <<uiGen, uiClosed, uiEmitted, uiResultCh, uiRows, uiStatus, uiLast>>
    /\ UNCHANGED uiRest

\* The UI thread runs the oldest callback handed to mw.Synchronize.
UIApply ==
    /\ uiSync # <<>>
    /\ uiSync' = Tail(uiSync)
    /\ IF uiClosed
       THEN UNCHANGED <<uiRows, uiStatus, uiLast>>
       ELSE \E slowFrom \in 1..(Len(Head(uiSync)) + 1) :
            \E r \in {ApplyBatch(Head(uiSync), uiGen, slowFrom, uiRows)} :
               /\ uiRows' = r.rows
               /\ uiStatus' = IF r.status = "" THEN uiStatus ELSE r.status
               /\ uiLast' = [ran |-> TRUE, curGen |-> uiGen, applied |-> r.applied,
                             skipped |-> r.skipped,
                             results |-> ResultsOf(Head(uiSync), uiGen),
                             before |-> uiRows, added |-> r.rows - uiRows]
    /\ UNCHANGED <<uiGen, uiClosed, uiEmitted, uiResultCh, uiBuffer, uiAggPc>>
    /\ UNCHANGED uiRest

\* The window closes: uiClosed is set and closeCh closed.
Closing ==
    /\ ~uiClosed
    /\ uiClosed' = TRUE
    /\ UNCHANGED <<uiGen, uiEmitted, uiResultCh, uiBuffer, uiAggPc, uiSync, uiRows,
                   uiStatus, uiLast>>
    /\ UNCHANGED uiRest

----
\* ======================= harness of the window ===========================

UiInit ==
    /\ uiGen = 0 /\ uiClosed = FALSE /\ uiEmitted = 0
    /\ uiResultCh = <<>> /\ uiBuffer = <<>> /\ uiAggPc = "select" /\ uiSync = <<>>
    /\ uiRows = 0 /\ uiStatus = "Ready" /\ uiLast = NoApply

UiNext ==
    \/ StartSearchNow
    \/ StopSearch
    \/ OnAnyQueryChanged
    \/ DaemonEmit
    \/ AggregatorRecv
    \/ AggregatorTick
    \/ UIApply
    \/ Closing

UiIdle ==
    /\ uiGen = 0 /\ uiClosed = TRUE /\ uiEmitted = 0
    /\ uiResultCh = <<>> /\ uiBuffer = <<>> /\ uiAggPc = "returned" /\ uiSync = <<>>
    /\ uiRows = 0 /\ uiStatus = "" /\ uiLast = NoApply

----
\* ======================= claims on the window ============================

\* C1: a callback applies to the result model and the status bar only events
\* of the generation current when it runs: none of a lower generation.
C1_GenerationMonotonic ==
    uiLast.ran => \A id \in uiLast.applied : ~(id < uiLast.curGen)

\* C1 witness: one callback, run after the generation went from 1 to 2,
\* passes over an event of generation 1 and applies one of generation 2.
C1_Witness ==
    /\ uiLast.ran /\ uiLast.curGen = 2
    /\ 1 \in uiLast.skipped /\ 2 \in uiLast.applied

\* C40 (as stated): a callback that finds room in the result model for the
\* result events of the current generation in its batch appends a row for
\* each of them.
C40_NoResultLost ==
    (uiLast.ran /\ uiLast.before + uiLast.results <= MaxResults)
    => uiLast.added = uiLast.results

----
\* ======================= specifications ==================================
\* Each specification runs one component; the others stay idle.

InitFind == FsInit /\ SmIdle /\ CaIdle /\ DmIdle /\ UiIdle /\ TrIdle /\ CwIdle /\ PdIdle /\ PpIdle /\ PgIdle /\ XsIdle /\ TcIdle /\ OxIdle /\ SwIdle /\ RcIdle
InitStream == SmInit /\ FsIdle /\ CaIdle /\ DmIdle /\ UiIdle /\ TrIdle /\ CwIdle /\ PdIdle /\ PpIdle /\ PgIdle /\ XsIdle /\ TcIdle /\ OxIdle /\ SwIdle /\ RcIdle
InitCache == CaInit /\ FsIdle /\ SmIdle /\ DmIdle /\ UiIdle /\ TrIdle /\ CwIdle /\ PdIdle /\ PpIdle /\ PgIdle /\ XsIdle /\ TcIdle /\ OxIdle /\ SwIdle /\ RcIdle
InitDaemon == DmInit /\ FsIdle /\ SmIdle /\ CaIdle /\ UiIdle /\ TrIdle /\ CwIdle /\ PdIdle /\ PpIdle /\ PgIdle /\ XsIdle /\ TcIdle /\ OxIdle /\ SwIdle /\ RcIdle
InitProtocol == DmInitProtocol /\ FsIdle /\ SmIdle /\ CaIdle /\ UiIdle /\ TrIdle /\ CwIdle /\ PdIdle /\ PpIdle /\ PgIdle /\ XsIdle /\ TcIdle /\ OxIdle /\ SwIdle /\ RcIdle
InitCap == DmInitCap /\ FsIdle /\ SmIdle /\ CaIdle /\ UiIdle /\ TrIdle /\ CwIdle /\ PdIdle /\ PpIdle /\ PgIdle /\ XsIdle /\ TcIdle /\ OxIdle /\ SwIdle /\ RcIdle
InitErrors == DmInitErrors /\ FsIdle /\ SmIdle /\ CaIdle /\ UiIdle /\ TrIdle /\ CwIdle /\ PdIdle /\ PpIdle /\ PgIdle /\ XsIdle /\ TcIdle /\ OxIdle /\ SwIdle /\ RcIdle
InitSession == DmInitSession /\ FsIdle /\ SmIdle /\ CaIdle /\ UiIdle /\ TrIdle /\ CwIdle /\ PdIdle /\ PpIdle /\ PgIdle /\ XsIdle /\ TcIdle /\ OxIdle /\ SwIdle /\ RcIdle
InitUI == UiInit /\ FsIdle /\ SmIdle /\ CaIdle /\ DmIdle /\ TrIdle /\ CwIdle /\ PdIdle /\ PpIdle /\ PgIdle /\ XsIdle /\ TcIdle /\ OxIdle /\ SwIdle /\ RcIdle
InitTrunc == TrInit /\ FsIdle /\ SmIdle /\ CaIdle /\ DmIdle /\ UiIdle /\ CwIdle /\ PdIdle /\ PpIdle /\ PgIdle /\ XsIdle /\ TcIdle /\ OxIdle /\ SwIdle /\ RcIdle
InitWriters == CwInit /\ FsIdle /\ SmIdle /\ CaIdle /\ DmIdle /\ UiIdle /\ TrIdle /\ PdIdle /\ PpIdle /\ PgIdle /\ XsIdle /\ TcIdle /\ OxIdle /\ SwIdle /\ RcIdle
InitPdf == PdInit /\ FsIdle /\ SmIdle /\ CaIdle /\ DmIdle /\ UiIdle /\ TrIdle /\ CwIdle /\ PpIdle /\ PgIdle /\ XsIdle /\ TcIdle /\ OxIdle /\ SwIdle /\ RcIdle
InitPolicy == PpInit /\ FsIdle /\ SmIdle /\ CaIdle /\ DmIdle /\ UiIdle /\ TrIdle /\ CwIdle /\ PdIdle /\ PgIdle /\ XsIdle /\ TcIdle /\ OxIdle /\ SwIdle /\ RcIdle
InitGate == PgInit /\ FsIdle /\ SmIdle /\ CaIdle /\ DmIdle /\ UiIdle /\ TrIdle /\ CwIdle /\ PdIdle /\ PpIdle /\ XsIdle /\ TcIdle /\ OxIdle /\ SwIdle /\ RcIdle
InitSelect == XsInit /\ FsIdle /\ SmIdle /\ CaIdle /\ DmIdle /\ UiIdle /\ TrIdle /\ CwIdle /\ PdIdle /\ PpIdle /\ PgIdle /\ TcIdle /\ OxIdle /\ SwIdle /\ RcIdle
InitChunks == TcInit /\ FsIdle /\ SmIdle /\ CaIdle /\ DmIdle /\ UiIdle /\ TrIdle /\ CwIdle /\ PdIdle /\ PpIdle /\ PgIdle /\ XsIdle /\ OxIdle /\ SwIdle /\ RcIdle
InitEntry == OxInit /\ FsIdle /\ SmIdle /\ CaIdle /\ DmIdle /\ UiIdle /\ TrIdle /\ CwIdle /\ PdIdle /\ PpIdle /\ PgIdle /\ XsIdle /\ TcIdle /\ SwIdle /\ RcIdle
InitSearch == SwInit /\ FsIdle /\ SmIdle /\ CaIdle /\ DmIdle /\ UiIdle /\ TrIdle /\ CwIdle /\ PdIdle /\ PpIdle /\ PgIdle /\ XsIdle /\ TcIdle /\ OxIdle /\ RcIdle
InitCLI == RcInit /\ FsIdle /\ SmIdle /\ CaIdle /\ DmIdle /\ UiIdle /\ TrIdle /\ CwIdle /\ PdIdle /\ PpIdle /\ PgIdle /\ XsIdle /\ TcIdle /\ OxIdle /\ SwIdle

SpecFind == InitFind /\ [][FsNext]_vars
SpecStream == InitStream /\ [][SmNext]_vars
SpecCache == InitCache /\ [][CaNext]_vars
SpecDaemon == InitDaemon /\ [][DmNext]_vars
SpecUI == InitUI /\ [][UiNext]_vars
SpecSession == InitSession /\ [][DmNext]_vars /\ DmFairness
SpecProtocol == InitProtocol /\ [][DmNext]_vars
SpecErrors == InitErrors /\ [][DmNext]_vars /\ DmProgress
SpecCap == InitCap /\ [][DmNext]_vars
SpecTrunc == InitTrunc /\ [][TrNext]_vars
SpecWriters == InitWriters /\ [][CwNext]_vars
SpecPdf == InitPdf /\ [][PdNext]_vars
SpecPolicy == InitPolicy /\ [][PpNext]_vars
SpecGate == InitGate /\ [][PgNext]_vars
SpecSelect == InitSelect /\ [][XsNext]_vars
SpecChunks == InitChunks /\ [][TcNext]_vars
SpecEntry == InitEntry /\ [][OxNext]_vars
SpecSearch == InitSearch /\ [][SwNext]_vars /\ SwFairness
SpecCLI == InitCLI /\ [][RcNext]_vars /\ RcFairness

====
